---- MODULE Spec2Model ----
(***************************************************************************)
(* Model of the bevy_transform_tools gizmo: the per-frame system chain     *)
(* sync_active_target, update_hovered_axis, begin_drag, drag_gizmo,        *)
(* end_drag, draw_gizmo (src/src/lib.rs) over the TransformGizmoState      *)
(* resource, with the geometry of src/src/math.rs, src/src/gizmo_frame.rs  *)
(* and src/src/interaction.rs.                                             *)
(*                                                                         *)
(* f32 values are fixed-point integers with quantum 1/U (0.001).  Angles   *)
(* are whole degrees (PI is 180).  A Vec3 is a triple <<x, y, z>>, a       *)
(* rotation is a 3x3 matrix <<row1, row2, row3>>.                          *)
(***************************************************************************)
EXTENDS Integers, Sequences, FiniteSets, TLC

(***************************************************************************)
(* Bounds of the model.                                                    *)
(***************************************************************************)
MaxFrames == 2
MaxHostEdits == 1

(***************************************************************************)
(* Fixed-point arithmetic.                                                 *)
(***************************************************************************)
U == 1000

Abs(x) == IF x < 0 THEN -x ELSE x

\* a / b rounded to the nearest integer, ties away from zero (b /= 0).
RDiv(a, b) ==
  LET n == IF b < 0 THEN -a ELSE a
      d == Abs(b)
  IN IF n >= 0 THEN (2 * n + d) \div (2 * d)
               ELSE -((2 * (-n) + d) \div (2 * d))

\* a * b on the grid, RDiv(a * b, U), formed from the magnitudes in two parts so
\* that the product of a large factor stays within the integers' range
Sgn(x) == IF x < 0 THEN -1 ELSE 1
Mul(a, b) ==
  Sgn(a) * Sgn(b)
    * (Abs(a) * (Abs(b) \div U) + RDiv(Abs(a) * (Abs(b) % U), U))

\* a / b on the grid, RDiv(a * U, b), formed in the same way (b /= 0)
FDiv(a, b) ==
  Sgn(a) * Sgn(b)
    * ((Abs(a) \div Abs(b)) * U + RDiv((Abs(a) % Abs(b)) * U, Abs(b)))

Max(a, b) == IF a >= b THEN a ELSE b

\* largest r with r * r <= n, by bisection on [lo, hi).
RECURSIVE SqrtSearch(_, _, _)
SqrtSearch(n, lo, hi) ==
  IF hi - lo <= 1 THEN lo
  ELSE LET mid == (lo + hi) \div 2
       IN IF mid * mid <= n THEN SqrtSearch(n, mid, hi)
                            ELSE SqrtSearch(n, lo, mid)

ISqrt(n) == IF n <= 0 THEN 0 ELSE SqrtSearch(n, 0, 46341)

\* f32::round applied to num / den, as a multiple of step.
SnapTo(value, step) == RDiv(value, step) * step

(***************************************************************************)
(* Vec3 (glam).                                                            *)
(***************************************************************************)
ZERO == <<0, 0, 0>>
VecX == <<U, 0, 0>>
VecY == <<0, U, 0>>
VecZ == <<0, 0, U>>

VAdd(a, b) == <<a[1] + b[1], a[2] + b[2], a[3] + b[3]>>
VSub(a, b) == <<a[1] - b[1], a[2] - b[2], a[3] - b[3]>>
VNeg(a) == <<-a[1], -a[2], -a[3]>>
VScale(a, s) == <<Mul(a[1], s), Mul(a[2], s), Mul(a[3], s)>>
VMul(a, b) == <<Mul(a[1], b[1]), Mul(a[2], b[2]), Mul(a[3], b[3])>>
VAbs(a) == <<Abs(a[1]), Abs(a[2]), Abs(a[3])>>
RawDot(a, b) == a[1] * b[1] + a[2] * b[2] + a[3] * b[3]
Dot(a, b) == RDiv(RawDot(a, b), U)
Cross(a, b) ==
  << RDiv(a[2] * b[3] - a[3] * b[2], U),
     RDiv(a[3] * b[1] - a[1] * b[3], U),
     RDiv(a[1] * b[2] - a[2] * b[1], U) >>
LengthSquared(a) == Dot(a, a)
Length(a) == ISqrt(RawDot(a, a))
NormalizeOrZero(a) ==
  LET len == Length(a)
  IN IF len = 0 THEN ZERO
     ELSE <<RDiv(a[1] * U, len), RDiv(a[2] * U, len), RDiv(a[3] * U, len)>>

(***************************************************************************)
(* Angles in degrees; sin and cos from a table of sin(0..90) * U; atan2 as *)
(* the inverse lookup on the same table.                                   *)
(***************************************************************************)
PI == 180

SinTable ==
  << 17, 35, 52, 70, 87, 105, 122, 139, 156, 174, 191, 208, 225, 242, 259,
     276, 292, 309, 326, 342, 358, 375, 391, 407, 423, 438, 454, 469, 485,
     500, 515, 530, 545, 559, 574, 588, 602, 616, 629, 643, 656, 669, 682,
     695, 707, 719, 731, 743, 755, 766, 777, 788, 799, 809, 819, 829, 839,
     848, 857, 866, 875, 883, 891, 899, 906, 914, 921, 927, 934, 940, 946,
     951, 956, 961, 966, 970, 974, 978, 982, 985, 988, 990, 993, 995, 996,
     998, 999, 999, 1000, 1000 >>

Sin90(d) == IF d = 0 THEN 0 ELSE SinTable[d]

\* the angle reduced to (-180, 180]
WrapAngle(a) == ((a + 179) % 360) - 179

Sin(a) ==
  LET w == WrapAngle(a)
      m == Abs(w)
      s == IF m <= 90 THEN Sin90(m) ELSE Sin90(180 - m)
  IN IF w < 0 THEN -s ELSE s

Cos(a) == Sin(a + 90)

\* atan of |y| / |x| in 0..90: the largest k with tan(k) <= |y| / |x|.
RECURSIVE AtanSearch(_, _, _, _)
AtanSearch(ay, ax, lo, hi) ==
  IF hi - lo <= 1 THEN lo
  ELSE LET mid == (lo + hi) \div 2
       IN IF ax * Sin90(mid) <= ay * Sin90(90 - mid)
          THEN AtanSearch(ay, ax, mid, hi)
          ELSE AtanSearch(ay, ax, lo, mid)

Atan2(y, x) ==
  IF x = 0 /\ y = 0 THEN 0
  ELSE LET q == AtanSearch(Abs(y), Abs(x), 0, 91)
       IN IF x >= 0 THEN (IF y >= 0 THEN q ELSE -q)
          ELSE (IF y >= 0 THEN 180 - q ELSE WrapAngle(q - 180))

(***************************************************************************)
(* Quat (glam), as a rotation matrix.                                      *)
(***************************************************************************)
QuatIdentity == <<VecX, VecY, VecZ>>

\* rotation * v
Rotate(r, v) == <<Dot(r[1], v), Dot(r[2], v), Dot(r[3], v)>>

Column(r, j) == <<r[1][j], r[2][j], r[3][j]>>

\* a * b: apply b, then a
MatRow(a, b, i) ==
  <<Dot(a[i], Column(b, 1)), Dot(a[i], Column(b, 2)), Dot(a[i], Column(b, 3))>>
QuatMul(a, b) == <<MatRow(a, b, 1), MatRow(a, b, 2), MatRow(a, b, 3)>>

\* Quat::from_axis_angle (Rodrigues' formula)
FromAxisAngle(k, angle) ==
  LET c == Cos(angle)
      s == Sin(angle)
      v == U - c
      e(i, j) == Mul(Mul(k[i], k[j]), v)
  IN << << c + e(1, 1), e(1, 2) - Mul(k[3], s), e(1, 3) + Mul(k[2], s) >>,
        << e(2, 1) + Mul(k[3], s), c + e(2, 2), e(2, 3) - Mul(k[1], s) >>,
        << e(3, 1) - Mul(k[2], s), e(3, 2) + Mul(k[1], s), c + e(3, 3) >> >>

(***************************************************************************)
(* Option<T>: None is the empty sequence, Some(v) the sequence <<v>>.      *)
(***************************************************************************)
None == <<>>
Some(v) == <<v>>
IsSome(o) == Len(o) = 1
IsNone(o) == Len(o) = 0
Unwrap(o) == o[1]
UnwrapOr(o, d) == IF IsSome(o) THEN o[1] ELSE d

(***************************************************************************)
(* types.rs                                                                *)
(***************************************************************************)
GizmoAxis == {"X", "Y", "Z"}
AxisOrder == <<"X", "Y", "Z">>

GizmoOperation ==
  {"TranslateAxis", "TranslatePlane", "Rotate", "ScaleAxis", "ScaleUniform"}

TransformGizmoSpace == {"World", "Local"}

\* AxisSnap::get and AxisToggles::enabled: one field per axis
AxisIndex(axis) == CASE axis = "X" -> 1 [] axis = "Y" -> 2 [] axis = "Z" -> 3
AxisSnapGet(s, axis) == s[AxisIndex(axis)]
AxisSnapNone == <<None, None, None>>
AxisSnapUniform(increment) == <<Some(increment), Some(increment), Some(increment)>>
AxisTogglesEnabled(tg, axis) == tg[AxisIndex(axis)]
AxisTogglesAll == <<TRUE, TRUE, TRUE>>

\* TransformGizmoStyle::default, the fields the hit test reads
DefaultStyle ==
  [ show_translate |-> TRUE, translate_axes |-> AxisTogglesAll,
    show_rotate |-> TRUE, rotate_axes |-> AxisTogglesAll,
    show_scale |-> TRUE, scale_axes |-> AxisTogglesAll,
    axis_length |-> 2000,
    translate_cone_length |-> 400,
    translate_hit_radius |-> 360,
    scale_cube_offset |-> 700,
    scale_hit_radius |-> 180,
    rotation_arc_degrees |-> 30,
    rotation_hit_thickness |-> 250,
    bounds_radius |-> 2600,
    show_translate_planes |-> TRUE,
    translate_plane_size |-> 500,
    translate_plane_offset |-> 350,
    translate_plane_hit_thickness |-> 100,
    show_scale_uniform |-> TRUE,
    scale_uniform_hit_radius |-> 350 ]

(***************************************************************************)
(* Thresholds.  EPSILON (1e-6), PLANE_EPSILON (1e-5) and the ring test's   *)
(* 1e-4 lie below the quantum: on the grid a non-negative x is below any   *)
(* of them exactly when x < 1, and above exactly when x > 0.               *)
(* MIN_SCALE_DIVISOR (1e-3) is one quantum.                                *)
(***************************************************************************)
BelowEpsilon(x) == x < 1
AboveEpsilon(x) == x > 0
MIN_SCALE_DIVISOR == 1
F32_MAX == 2000000000

(***************************************************************************)
(* math.rs                                                                 *)
(***************************************************************************)
axis_basis(axis_in) ==
  LET axis == NormalizeOrZero(axis_in)
  IN IF BelowEpsilon(LengthSquared(axis)) THEN <<VecX, VecY>>
     ELSE LET helper == IF Dot(VAbs(axis), VecY) < 900 THEN VecY ELSE VecX
              t1 == NormalizeOrZero(Cross(axis, helper))
              t2 == NormalizeOrZero(Cross(axis, t1))
          IN <<t1, t2>>

\* mutant: the near root is returned as it is, also when it lies behind
ray_sphere_intersection_NearRoot(ray, center, radius) ==
  LET m == VSub(ray.origin, center)
      b == Dot(m, ray.direction)
      c == LengthSquared(m) - Mul(radius, radius)
      discr == Mul(b, b) - c
      t == -b - ISqrt(discr * U)
  IN IF c > 0 /\ b > 0 THEN None
     ELSE IF discr < 0 THEN None
     ELSE Some(t)

ray_sphere_intersection(ray, center, radius) ==
  LET m == VSub(ray.origin, center)
      b == Dot(m, ray.direction)
      c == LengthSquared(m) - Mul(radius, radius)
      discr == Mul(b, b) - c
      t == -b - ISqrt(discr * U)
  IN IF c > 0 /\ b > 0 THEN None
     ELSE IF discr < 0 THEN None
     ELSE IF t < 0 THEN Some(0)
     ELSE Some(t)

\* the ray parameter of the intersection, before the point is formed
ray_plane_t(ray, plane_origin, plane_normal) ==
  LET denom == Dot(plane_normal, ray.direction)
  IN IF BelowEpsilon(Abs(denom)) THEN None
     ELSE Some(RDiv(Dot(VSub(plane_origin, ray.origin), plane_normal) * U, denom))

\* mutant: the point is formed whatever the sign of the ray parameter
ray_plane_intersection_BothSides(ray, plane_origin, plane_normal) ==
  LET t == ray_plane_t(ray, plane_origin, plane_normal)
  IN IF IsNone(t) THEN None
     ELSE Some(VAdd(ray.origin, VScale(ray.direction, Unwrap(t))))

ray_plane_intersection(ray, plane_origin, plane_normal) ==
  LET t == ray_plane_t(ray, plane_origin, plane_normal)
  IN IF IsNone(t) THEN None
     ELSE IF Unwrap(t) < 0 THEN None
     ELSE Some(VAdd(ray.origin, VScale(ray.direction, Unwrap(t))))

(***************************************************************************)
(* gizmo_frame.rs                                                          *)
(***************************************************************************)
GizmoFrameNew(transform, space) ==
  LET local_x == Rotate(transform.rotation, VecX)
      local_y == Rotate(transform.rotation, VecY)
      local_z == Rotate(transform.rotation, VecZ)
      tx == IF space = "World" THEN <<VecX, VecY, VecZ>>
                               ELSE <<local_x, local_y, local_z>>
  IN [ origin |-> transform.translation,
       tx |-> tx,
       sc |-> <<local_x, local_y, local_z>> ]

\* mutant: the scale axes follow the space setting like the others
axis_dir_ScaleFollowsSpace(frame, axis, kind) == frame.tx[AxisIndex(axis)]

\* kind is "Translate", "Rotate" or "Scale"
axis_dir(frame, axis, kind) ==
  IF kind \in {"Translate", "Rotate"} THEN frame.tx[AxisIndex(axis)]
                                      ELSE frame.sc[AxisIndex(axis)]

plane_axes(normal_axis) ==
  CASE normal_axis = "X" -> <<"Y", "Z">>
    [] normal_axis = "Y" -> <<"X", "Z">>
    [] normal_axis = "Z" -> <<"X", "Y">>

(***************************************************************************)
(* The world the systems run in.                                           *)
(***************************************************************************)
Entities == 1..2

VARIABLES
  space,          \* TransformGizmoState::space
  active_target,  \* TransformGizmoState::active_target, Option<Entity>
  hovered_axis,   \* TransformGizmoState::hovered_axis, Option<GizmoAxis>
  hovered_op,     \* TransformGizmoState::hovered_op, Option<GizmoOperation>
  drag,           \* TransformGizmoState::drag, Option<TransformGizmoDrag>
  snap,           \* the TransformGizmoSnap resource
  style,          \* the TransformGizmoStyle resource
  transform,      \* each target's Transform component
  global,         \* each target's GlobalTransform component
  gizmo_active,   \* the targets that carry the GizmoActive marker
  buttons,        \* ButtonInput<MouseButton> for MouseButton::Left
  input,          \* camera, window and cursor of the frame
  pc,             \* the system of the chain that runs next
  frame,          \* frames started so far
  edits           \* host edits made so far

vars == << space, active_target, hovered_axis, hovered_op, drag, snap, style,
           transform, global, gizmo_active, buttons, input, pc, frame, edits >>

(***************************************************************************)
(* update_hovered_axis: the handle tests of one target, in the order of    *)
(* the code.  Each entry carries the ray parameter of an accepted hit.     *)
(***************************************************************************)
\* the centre of the sphere around an axis cone: halfway from line end to tip
ConeCenter(origin, dir) ==
  LET line_end == VAdd(origin, VScale(dir, style.axis_length))
  IN VScale(VAdd(line_end,
                 VAdd(line_end, VScale(dir, style.translate_cone_length))), 500)

\* a sphere handle on the axis dir: skipped when dir is degenerate
AxisSphereHit(ray, dir, center, radius) ==
  IF BelowEpsilon(LengthSquared(dir)) THEN None
  ELSE ray_sphere_intersection(ray, center, radius)

TranslateConeAlong(ray, origin, dir) ==
  AxisSphereHit(ray, dir, ConeCenter(origin, dir), style.translate_hit_radius)

TranslateConeHit(ray, fr, axis) ==
  IF ~style.show_translate \/ ~AxisTogglesEnabled(style.translate_axes, axis)
  THEN None
  ELSE TranslateConeAlong(ray, fr.origin,
                          NormalizeOrZero(axis_dir(fr, axis, "Translate")))

ScaleCubeAlong(ray, origin, dir) ==
  AxisSphereHit(ray, dir,
                VAdd(origin,
                     VScale(dir, Mul(style.axis_length, style.scale_cube_offset))),
                style.scale_hit_radius)

ScaleCubeHit(ray, fr, axis) ==
  IF ~style.show_scale \/ ~AxisTogglesEnabled(style.scale_axes, axis)
  THEN None
  ELSE ScaleCubeAlong(ray, fr.origin, NormalizeOrZero(axis_dir(fr, axis, "Scale")))

\* the two neighbours (n1, n2) of a rotation axis
RotationNeighbours(axis) ==
  CASE axis = "X" -> <<"Y", "Z">>
    [] axis = "Y" -> <<"Z", "X">>
    [] axis = "Z" -> <<"X", "Y">>

\* `y.atan2(x)` of a direction in the basis (t1, t2) of the ring's plane
RingAngle(v, basis) == Atan2(Dot(v, basis[2]), Dot(v, basis[1]))

\* the bisector mid0 of the neighbouring axes, projected into the ring's plane
ArcMid(dir, mid0) == NormalizeOrZero(VSub(mid0, VScale(dir, Dot(dir, mid0))))

\* (angle - centre + PI).rem_euclid(2 PI) - PI
ArcDiff(angle, centre) == ((angle - centre + PI) % (2 * PI)) - PI

\* the ring test from `let (t1, t2) = axis_basis(axis_dir)` on
ArcSweepHit(ray, hit_point, v, dir, basis, mid0) ==
  IF Abs(ArcDiff(RingAngle(NormalizeOrZero(v), basis),
                 RingAngle(ArcMid(dir, mid0), basis)))
       > RDiv(style.rotation_arc_degrees, 2)
  THEN None
  ELSE ray_sphere_intersection(ray, hit_point, style.rotation_hit_thickness)

\* the ring test from `let radius = v.length()` on
ArcRingHit(ray, hit_point, v, radius, dir, n1, n2) ==
  IF BelowEpsilon(radius) THEN None
  ELSE IF Abs(radius - style.axis_length) > style.rotation_hit_thickness THEN None
  ELSE ArcSweepHit(ray, hit_point, v, dir, axis_basis(dir),
                   NormalizeOrZero(VAdd(n1, n2)))

\* the ring test from `let Some(hit_point) = ray_plane_intersection(..)` on
ArcPlaneHit(ray, origin, hit, dir, n1, n2) ==
  IF IsNone(hit) THEN None
  ELSE ArcRingHit(ray, Unwrap(hit), VSub(Unwrap(hit), origin),
                  Length(VSub(Unwrap(hit), origin)), dir, n1, n2)

\* the ring test from `let axis_dir = axis_vec.normalize_or_zero()` on
ArcAxisHit(ray, origin, dir, n1, n2) ==
  IF BelowEpsilon(LengthSquared(dir)) THEN None
  ELSE ArcPlaneHit(ray, origin, ray_plane_intersection(ray, origin, dir),
                   dir, n1, n2)

RotationArcHit(ray, fr, axis) ==
  IF ~style.show_rotate \/ ~AxisTogglesEnabled(style.rotate_axes, axis)
  THEN None
  ELSE ArcAxisHit(ray, fr.origin,
                  NormalizeOrZero(axis_dir(fr, axis, "Rotate")),
                  axis_dir(fr, RotationNeighbours(axis)[1], "Rotate"),
                  axis_dir(fr, RotationNeighbours(axis)[2], "Rotate"))

\* `u >= offset - pad && u <= offset + size + pad`
InsideQuad(u) ==
  /\ u >= style.translate_plane_offset - style.translate_plane_hit_thickness
  /\ u <= style.translate_plane_offset + style.translate_plane_size
            + style.translate_plane_hit_thickness

\* the plane test from `let local = hit_point - origin` on
PlaneQuadHit(ray, hit_point, local, dir1, dir2) ==
  IF InsideQuad(Dot(local, dir1)) /\ InsideQuad(Dot(local, dir2))
     /\ Dot(VSub(hit_point, ray.origin), ray.direction) >= 0
  THEN Some(Dot(VSub(hit_point, ray.origin), ray.direction))
  ELSE None

\* the plane test from `let Some(hit_point) = ray_plane_intersection(..)` on
PlanePointHit(ray, origin, hit, dir1, dir2) ==
  IF IsNone(hit) THEN None
  ELSE PlaneQuadHit(ray, Unwrap(hit), VSub(Unwrap(hit), origin), dir1, dir2)

\* the plane test from the three length_squared checks on
PlaneAxesHit(ray, origin, plane_normal, dir1, dir2) ==
  IF \/ BelowEpsilon(LengthSquared(plane_normal))
     \/ BelowEpsilon(LengthSquared(dir1))
     \/ BelowEpsilon(LengthSquared(dir2))
  THEN None
  ELSE PlanePointHit(ray, origin,
                     ray_plane_intersection(ray, origin, plane_normal), dir1, dir2)

TranslatePlaneHit(ray, fr, axis) ==
  IF ~(style.show_translate /\ style.show_translate_planes)
     \/ ~AxisTogglesEnabled(style.translate_axes, axis)
  THEN None
  ELSE PlaneAxesHit(ray, fr.origin,
                    NormalizeOrZero(axis_dir(fr, axis, "Translate")),
                    NormalizeOrZero(axis_dir(fr, plane_axes(axis)[1], "Translate")),
                    NormalizeOrZero(axis_dir(fr, plane_axes(axis)[2], "Translate")))

ScaleUniformHit(ray, fr) ==
  IF ~(style.show_scale /\ style.show_scale_uniform) THEN None
  ELSE ray_sphere_intersection(ray, fr.origin, style.scale_uniform_hit_radius)

Handle(op, axis, t) == [op |-> op, axis |-> axis, t |-> t]

\* every handle of one target with its hit, in the order the code tests them
HandleHits(ray, fr) ==
  [i \in 1..3 |-> Handle("TranslateAxis", AxisOrder[i],
                         TranslateConeHit(ray, fr, AxisOrder[i]))]
  \o [i \in 1..3 |-> Handle("ScaleAxis", AxisOrder[i],
                            ScaleCubeHit(ray, fr, AxisOrder[i]))]
  \o [i \in 1..3 |-> Handle("Rotate", AxisOrder[i],
                            RotationArcHit(ray, fr, AxisOrder[i]))]
  \o [i \in 1..3 |-> Handle("TranslatePlane", AxisOrder[i],
                            TranslatePlaneHit(ray, fr, AxisOrder[i]))]
  \o << Handle("ScaleUniform", "X", ScaleUniformHit(ray, fr)) >>

\* `if t < best_t { best_t = t; best_target = Some(entity); best = Some(..) }`
KeepBest(best, entity, h) ==
  IF IsSome(h.t) /\ Unwrap(h.t) < best.best_t
  THEN [ best_t |-> Unwrap(h.t), best_target |-> Some(entity),
         best |-> Some(<<h.op, h.axis>>) ]
  ELSE best

RECURSIVE ScanHandles(_, _, _, _)
ScanHandles(best, entity, hits, i) ==
  IF i > Len(hits) THEN best
  ELSE ScanHandles(KeepBest(best, entity, hits[i]), entity, hits, i + 1)

\* the coarse bounds test of one target
BoundsHit(ray, fr) == ray_sphere_intersection(ray, fr.origin, style.bounds_radius)

\* one iteration of `for (entity, transform) in targets.iter()`, from the
\* coarse bounds test on
ScanFrame(best, ray, entity, fr, bounds_t) ==
  IF IsNone(bounds_t) THEN best
  ELSE IF Unwrap(bounds_t) > best.best_t THEN best
  ELSE ScanHandles(best, entity, HandleHits(ray, fr), 1)

ScanTarget(best, ray, entity, fr) ==
  ScanFrame(best, ray, entity, fr, BoundsHit(ray, fr))

RECURSIVE ScanTargets(_, _, _, _, _)
ScanTargets(best, ray, entity, sp, gl) ==
  IF entity \notin Entities THEN best
  ELSE ScanTargets(ScanTarget(best, ray, entity, GizmoFrameNew(gl[entity], sp)),
                   ray, entity + 1, sp, gl)

NoBest == [best_t |-> F32_MAX, best_target |-> None, best |-> None]

\* the search across all targets for the closest element under the cursor
ClosestHit(ray, sp, gl) == ScanTargets(NoBest, ray, 1, sp, gl)

(***************************************************************************)
(* begin_drag: the snapshot captured for a press on the hovered handle.    *)
(* forward is camera_transform.forward(), gl the target's GlobalTransform. *)
(***************************************************************************)
DragAxisDir(fr, op, axis, forward) ==
  NormalizeOrZero(
    CASE op \in {"TranslateAxis", "TranslatePlane"} -> axis_dir(fr, axis, "Translate")
      [] op = "Rotate" -> axis_dir(fr, axis, "Rotate")
      [] op = "ScaleAxis" -> axis_dir(fr, axis, "Scale")
      [] op = "ScaleUniform" -> forward)

DragPlaneNormal(op, dir, forward) ==
  LET view_dir == VNeg(forward)
  IN CASE op \in {"Rotate", "TranslatePlane"} -> dir
       [] op \in {"TranslateAxis", "ScaleAxis"} ->
            LET n == NormalizeOrZero(Cross(Cross(dir, view_dir), dir))
            IN IF BelowEpsilon(LengthSquared(n)) THEN dir ELSE n
       [] op = "ScaleUniform" ->
            LET helper == IF Dot(VAbs(view_dir), VecY) < 900 THEN VecY ELSE VecX
                n == NormalizeOrZero(Cross(view_dir, helper))
            IN IF BelowEpsilon(LengthSquared(n)) THEN view_dir ELSE n

\* the angle of v around the axis, in the basis of axis_basis
AngleAround(dir, v) ==
  LET basis == axis_basis(dir)
      proj == NormalizeOrZero(v)
  IN Atan2(Dot(proj, basis[2]), Dot(proj, basis[1]))

\* v minus its component along n
InPlane(v, n) == VSub(v, VScale(n, Dot(v, n)))

NewDrag(entity, op, axis, gl, sp, forward, ray) ==
  LET fr == GizmoFrameNew(gl, sp)
      origin == fr.origin
      dir == DragAxisDir(fr, op, axis, forward)
      plane_normal == DragPlaneNormal(op, dir, forward)
      hit_point == UnwrapOr(ray_plane_intersection(ray, origin, plane_normal), origin)
      v == VSub(hit_point, origin)
      planar == op = "TranslatePlane"
  IN [ target |-> entity,
       op |-> op,
       axis |-> axis,
       origin |-> origin,
       axis_dir |-> dir,
       plane_normal |-> plane_normal,
       plane_origin |-> origin,
       plane_dir1 |-> IF planar
                      THEN NormalizeOrZero(axis_dir(fr, plane_axes(axis)[1], "Translate"))
                      ELSE ZERO,
       plane_dir2 |-> IF planar
                      THEN NormalizeOrZero(axis_dir(fr, plane_axes(axis)[2], "Translate"))
                      ELSE ZERO,
       plane_axis1 |-> IF planar THEN plane_axes(axis)[1] ELSE "X",
       plane_axis2 |-> IF planar THEN plane_axes(axis)[2] ELSE "Y",
       start_translation |-> gl.translation,
       start_rotation |-> gl.rotation,
       start_scale |-> gl.scale,
       start_t |-> CASE op \in {"TranslateAxis", "ScaleAxis"} -> Dot(v, dir)
                     [] op = "Rotate" -> AngleAround(dir, v)
                     [] op = "TranslatePlane" -> 0
                     [] op = "ScaleUniform" -> Length(v),
       start_vector |-> CASE op = "TranslatePlane" -> InPlane(v, plane_normal)
                          [] op = "Rotate" -> v
                          [] OTHER -> ZERO ]

(***************************************************************************)
(* drag_gizmo: the transform written for a drag snapshot d, the snap       *)
(* resource sn and the live ray; tr is the target's Transform.             *)
(***************************************************************************)
\* mutant: the quotient is truncated to the multiple below, not rounded
SnapDelta_Truncate(x, step) ==
  IF IsSome(step) /\ Unwrap(step) > 0 THEN (x \div Unwrap(step)) * Unwrap(step) ELSE x

\* `if let Some(step) = .. { if step > 0.0 { x = (x / step).round() * step } }`
SnapDelta(x, step) ==
  IF IsSome(step) /\ Unwrap(step) > 0 THEN SnapTo(x, Unwrap(step)) ELSE x

\* mutant: the ratio is rounded to the increment, not the resulting scale
snap_scale_RoundsRatio(base, delta, step) ==
  IF IsSome(step) /\ Unwrap(step) > 0 THEN SnapTo(U + delta, Unwrap(step))
                                      ELSE U + delta

snap_scale(base, delta, step) ==
  LET raw == U + delta
  IN IF IsSome(step) /\ Unwrap(step) > 0
     THEN LET target == Mul(base, raw)
              snapped == SnapTo(target, Unwrap(step))
          IN IF AboveEpsilon(Abs(base)) THEN FDiv(snapped, base) ELSE raw
     ELSE raw

DragVector(d, ray) ==
  VSub(UnwrapOr(ray_plane_intersection(ray, d.plane_origin, d.plane_normal), d.origin),
       d.origin)

\* mutant: the projection itself is applied, start_t is not subtracted
TranslateAxisUpdate_NoStart(d, sn, v) ==
  VAdd(d.start_translation, VScale(d.axis_dir, Dot(v, d.axis_dir)))

\* mutant: the position along the axis is rounded, not the delta
TranslateAxisUpdate_SnapsPosition(d, sn, v) ==
  LET t == SnapDelta(Dot(v, d.axis_dir), AxisSnapGet(sn.translate, d.axis))
  IN VAdd(d.start_translation, VScale(d.axis_dir, t - d.start_t))

TranslateAxisUpdate(d, sn, v) ==
  LET t == Dot(v, d.axis_dir)
      delta == SnapDelta(t - d.start_t, AxisSnapGet(sn.translate, d.axis))
  IN VAdd(d.start_translation, VScale(d.axis_dir, delta))

\* mutant: the second plane axis takes the increment of the first
TranslatePlaneUpdate_OneStep(d, sn, v) ==
  LET delta == VSub(InPlane(v, d.plane_normal), d.start_vector)
      u == SnapDelta(Dot(delta, d.plane_dir1), AxisSnapGet(sn.translate, d.plane_axis1))
      w == SnapDelta(Dot(delta, d.plane_dir2), AxisSnapGet(sn.translate, d.plane_axis1))
  IN VAdd(d.start_translation, VAdd(VScale(d.plane_dir1, u), VScale(d.plane_dir2, w)))

TranslatePlaneUpdate(d, sn, v) ==
  LET delta == VSub(InPlane(v, d.plane_normal), d.start_vector)
      u == SnapDelta(Dot(delta, d.plane_dir1), AxisSnapGet(sn.translate, d.plane_axis1))
      w == SnapDelta(Dot(delta, d.plane_dir2), AxisSnapGet(sn.translate, d.plane_axis2))
  IN VAdd(d.start_translation, VAdd(VScale(d.plane_dir1, u), VScale(d.plane_dir2, w)))

\* mutant: the cursor's travel itself is the delta, not its ratio to start_t
ScaleAxisUpdate_Absolute(d, sn, v) ==
  LET t == Dot(v, d.axis_dir)
      i == AxisIndex(d.axis)
      f == snap_scale(d.start_scale[i], t - d.start_t, AxisSnapGet(sn.scale, d.axis))
  IN [d.start_scale EXCEPT ![i] = Mul(@, f)]

ScaleAxisUpdate(d, sn, v) ==
  LET t == Dot(v, d.axis_dir)
      delta == RDiv((t - d.start_t) * U, Max(d.start_t, MIN_SCALE_DIVISOR))
      i == AxisIndex(d.axis)
      f == snap_scale(d.start_scale[i], delta, AxisSnapGet(sn.scale, d.axis))
  IN [d.start_scale EXCEPT ![i] = Mul(@, f)]

\* mutant: the factor is applied as it is, without the floor
ScaleUniformUpdate_NoClamp(d, sn, v) ==
  LET t == Length(v)
      factor == IF Abs(d.start_t) > MIN_SCALE_DIVISOR THEN RDiv(t * U, d.start_t)
                                                      ELSE U
      base == d.start_scale
      snap_step == UnwrapOr(AxisSnapGet(sn.scale, "X"), 0)
      snapped_factor ==
        IF snap_step > 0
        THEN LET target == Mul(base[1], factor)
                 snapped == SnapTo(target, snap_step)
             IN IF AboveEpsilon(Abs(base[1])) THEN FDiv(snapped, base[1])
                                              ELSE factor
        ELSE factor
  IN VScale(base, snapped_factor)

\* mutant: a start distance near zero is replaced by the minimum divisor
ScaleUniformUpdate_MinDivisor(d, sn, v) ==
  LET t == Length(v)
      factor == FDiv(t, Max(d.start_t, MIN_SCALE_DIVISOR))
      base == d.start_scale
      snap_step == UnwrapOr(AxisSnapGet(sn.scale, "X"), 0)
      snapped_factor ==
        IF snap_step > 0
        THEN LET target == Mul(base[1], factor)
                 snapped == SnapTo(target, snap_step)
             IN IF AboveEpsilon(Abs(base[1])) THEN FDiv(snapped, base[1])
                                              ELSE factor
        ELSE factor
  IN VScale(base, Max(snapped_factor, 1))

ScaleUniformUpdate(d, sn, v) ==
  LET t == Length(v)
      factor == IF Abs(d.start_t) > MIN_SCALE_DIVISOR THEN RDiv(t * U, d.start_t)
                                                      ELSE U
      base == d.start_scale
      snap_step == UnwrapOr(AxisSnapGet(sn.scale, "X"), 0)
      snapped_factor ==
        IF snap_step > 0
        THEN LET target == Mul(base[1], factor)
                 snapped == SnapTo(target, snap_step)
             IN IF AboveEpsilon(Abs(base[1])) THEN FDiv(snapped, base[1])
                                              ELSE factor
        ELSE factor
  IN VScale(base, Max(snapped_factor, 1))

\* mutant: the delta is composed after the start rotation (intrinsic delta)
RotateUpdate_Intrinsic(d, sn, v) ==
  LET angle == AngleAround(d.axis_dir, v)
      delta_angle == SnapDelta(angle - d.start_t, AxisSnapGet(sn.rotate, d.axis))
  IN QuatMul(d.start_rotation, FromAxisAngle(d.axis_dir, delta_angle))

RotateUpdate(d, sn, v) ==
  LET angle == AngleAround(d.axis_dir, v)
      delta_angle == SnapDelta(angle - d.start_t, AxisSnapGet(sn.rotate, d.axis))
  IN QuatMul(FromAxisAngle(d.axis_dir, delta_angle), d.start_rotation)

\* mutant: a scale update also puts the target back at its start translation
DragUpdate_ResetsTranslation(d, sn, tr, ray) ==
  LET v == DragVector(d, ray)
  IN CASE d.op = "TranslateAxis" ->
            [tr EXCEPT !.translation = TranslateAxisUpdate(d, sn, v)]
       [] d.op = "TranslatePlane" ->
            [tr EXCEPT !.translation = TranslatePlaneUpdate(d, sn, v)]
       [] d.op = "ScaleAxis" ->
            [tr EXCEPT !.scale = ScaleAxisUpdate(d, sn, v),
                       !.translation = d.start_translation]
       [] d.op = "ScaleUniform" ->
            [tr EXCEPT !.scale = ScaleUniformUpdate(d, sn, v),
                       !.translation = d.start_translation]
       [] d.op = "Rotate" ->
            [tr EXCEPT !.rotation = RotateUpdate(d, sn, v)]

\* mutant: a TranslateAxis update moves the target on from where it is
DragUpdate_Incremental(d, sn, tr, ray) ==
  LET v == DragVector(d, ray)
  IN CASE d.op = "TranslateAxis" ->
            [tr EXCEPT !.translation =
               VAdd(@, VSub(TranslateAxisUpdate(d, sn, v), d.start_translation))]
       [] d.op = "TranslatePlane" ->
            [tr EXCEPT !.translation = TranslatePlaneUpdate(d, sn, v)]
       [] d.op = "ScaleAxis" ->
            [tr EXCEPT !.scale = ScaleAxisUpdate(d, sn, v)]
       [] d.op = "ScaleUniform" ->
            [tr EXCEPT !.scale = ScaleUniformUpdate(d, sn, v)]
       [] d.op = "Rotate" ->
            [tr EXCEPT !.rotation = RotateUpdate(d, sn, v)]

DragUpdate(d, sn, tr, ray) ==
  LET v == DragVector(d, ray)
  IN CASE d.op = "TranslateAxis" ->
            [tr EXCEPT !.translation = TranslateAxisUpdate(d, sn, v)]
       [] d.op = "TranslatePlane" ->
            [tr EXCEPT !.translation = TranslatePlaneUpdate(d, sn, v)]
       [] d.op = "ScaleAxis" ->
            [tr EXCEPT !.scale = ScaleAxisUpdate(d, sn, v)]
       [] d.op = "ScaleUniform" ->
            [tr EXCEPT !.scale = ScaleUniformUpdate(d, sn, v)]
       [] d.op = "Rotate" ->
            [tr EXCEPT !.rotation = RotateUpdate(d, sn, v)]

(***************************************************************************)
(* The host: poses it gives the targets, snap settings, cameras and        *)
(* cursor rays, mouse button events.                                       *)
(***************************************************************************)
Pose(t, r, sc) == [translation |-> t, rotation |-> r, scale |-> sc]

PoseOrigin == Pose(ZERO, QuatIdentity, <<U, U, U>>)
PoseBehind == Pose(<<0, 0, -3000>>, FromAxisAngle(VecZ, 90), <<2000, U, U>>)
Poses == {PoseOrigin, PoseBehind}

InitialPose(e) == IF e = 1 THEN PoseOrigin ELSE PoseBehind

SnapOff == [translate |-> AxisSnapNone, rotate |-> AxisSnapNone, scale |-> AxisSnapNone]
SnapOn == [ translate |-> <<Some(U), None, Some(500)>>,
            rotate |-> AxisSnapUniform(15),
            scale |-> AxisSnapUniform(300) ]
SnapSettings == {SnapOff, SnapOn}

\* the styles the host switches between: the default, one with the rotation
\* handles hidden, one with the axes lengthened and every other size kept
RotateHidden == [DefaultStyle EXCEPT !.show_rotate = FALSE]
LongAxes == [DefaultStyle EXCEPT !.axis_length = 3000]
Styles == {DefaultStyle, RotateHidden, LongAxes}

Ray(o, d) == [origin |-> o, direction |-> d]

Frame(cam, win, cur, fwd, ray) ==
  [camera |-> cam, window |-> win, cursor |-> cur, forward |-> fwd, ray |-> ray]

\* a camera looking along d with the cursor ray leaving o along d
Look(o, d) == Frame(TRUE, TRUE, TRUE, d, Some(Ray(o, d)))

DownZ == <<0, 0, -U>>

MissingInputs ==
  { Frame(FALSE, TRUE, TRUE, DownZ, None),       \* no TransformGizmoCamera
    Frame(TRUE, FALSE, FALSE, DownZ, None),      \* no primary window
    Frame(TRUE, TRUE, FALSE, DownZ, None) }      \* cursor outside the window

RayInputs ==
  { Look(<<2200, 0, 10000>>, DownZ),             \* over the X translate cone
    Look(<<1400, 0, 10000>>, DownZ),             \* over the X scale cube
    Look(<<600, 600, 10000>>, DownZ),            \* over the XY plane handle
    Look(<<1414, 1414, 10000>>, DownZ),          \* over the Z rotation arc
    Look(<<10000, 0, 0>>, <<-U, 0, 0>>),         \* down the X axis
    Look(<<2200, 0, 10000>>, <<0, 0, U>>),       \* looking away from the scene
    Frame(TRUE, TRUE, TRUE, DownZ,               \* perspective, near the origin
          Some(Ray(<<-5800, 0, 8000>>, <<600, 0, -800>>))),
    Frame(TRUE, TRUE, TRUE, DownZ,
          Some(Ray(<<-5900, 0, 8000>>, <<600, 0, -800>>))) }

Inputs == MissingInputs \cup RayInputs

\* the poses and the inputs the hit test is run on by itself
PoseNear == Pose(<<0, 0, -500>>, QuatIdentity, <<U, U, U>>)
PoseTilted == Pose(<<1000, 0, -1000>>, FromAxisAngle(VecY, 30), <<U, 500, U>>)
HoverPoses == {PoseOrigin, PoseBehind, PoseNear, PoseTilted}

HoverInputs ==
  Inputs \cup { Look(<<0, 0, 10000>>, DownZ),           \* down the Z axis
                Look(<<2200, 0, -10000>>, <<0, 0, U>>),  \* from below
                Look(<<-1400, 0, 10000>>, DownZ),        \* over a turned Y scale cube
                Look(<<0, 0, -1500>>, DownZ),            \* from inside the bounds
                Look(<<0, 0, 2000>>, <<0, 0, U>>),       \* from inside, looking away
                Look(<<0, 0, 10000>>, <<0, 0, U>>) }     \* every target behind

\* the poses, the presses and the cursor moves the drag update is run on:
\* a press on a handle of the first target, then the cursor somewhere else
PoseTurned == Pose(ZERO, FromAxisAngle(VecZ, 90), <<2000, U, 500>>)
\* a target mirrored in x: to_scale_rotation_translation gives the sign of the
\* determinant to the x component of the scale
PoseMirrored == Pose(ZERO, QuatIdentity, <<-U, U, U>>)
DragPoses == {PoseOrigin, PoseTurned, PoseMirrored}

DragStarts ==
  { Look(<<2200, 0, 10000>>, DownZ),             \* a translate cone on world X
    Look(<<0, 2200, 10000>>, DownZ),             \* a translate cone on world Y
    Look(<<1400, 0, 10000>>, DownZ),             \* a scale cube on world X
    Look(<<0, 1400, 10000>>, DownZ),             \* a scale cube on world Y
    Look(<<600, 600, 10000>>, DownZ),            \* the XY plane handle
    Look(<<600, 10000, 600>>, <<0, -U, 0>>),     \* the XZ plane handle, from above
    Look(<<10000, 600, 600>>, <<-U, 0, 0>>),     \* the YZ plane handle, from the side
    Look(<<1414, 1414, 10000>>, DownZ),          \* the Z rotation arc
    Look(<<1414, 10000, 1414>>, <<0, -U, 0>>),   \* the Y rotation arc, from above
    Frame(TRUE, TRUE, TRUE, DownZ,               \* the uniform scale handle
          Some(Ray(<<-5800, 0, 8000>>, <<600, 0, -800>>))),
    Look(<<-6000, 200, 8000>>, <<600, 0, -800>>), \* the same, looked at straight
    Frame(TRUE, TRUE, TRUE, <<-960, 0, -280>>,    \* the X scale cube, along z = 0.1
          Some(Ray(<<9400, -6000, 100>>, <<-800, 600, 0>>))),
    Frame(TRUE, TRUE, TRUE, <<-960, 0, -280>>,    \* the X scale cube, at a low angle
          Some(Ray(<<9400, -5990, 500>>, <<-800, 599, -40>>))) }

DragMoves ==
  { Look(<<5200, 0, 10000>>, DownZ),             \* 3.0 further along X
    Look(<<2800, 0, 10000>>, DownZ),             \* twice as far along X
    Look(<<0, 2800, 10000>>, DownZ),             \* twice as far along Y
    Look(<<3700, 300, 10000>>, DownZ),
    Look(<<-400, 2950, 10000>>, DownZ),
    Look(<<1230, -1780, 10000>>, DownZ),
    Look(<<-1414, 1414, 10000>>, DownZ),         \* a quarter turn about Z
    Look(<<1414, 10000, -1414>>, <<0, -U, 0>>),  \* a quarter turn about Y
    Look(<<-900, 10000, 2100>>, <<0, -U, 0>>),
    Look(<<600, 600, 10000>>, DownZ),            \* parallel to the plane x = 0
    Frame(TRUE, TRUE, TRUE, DownZ,
          Some(Ray(<<-5990, 0, 8000>>, <<600, 0, -800>>))),
    Frame(TRUE, TRUE, TRUE, DownZ,
          Some(Ray(<<-3000, 1000, 8000>>, <<600, 0, -800>>))) }

\* the mouse button events that arrive before a frame, in order
ButtonEvents ==
  { <<>>, <<"press">>, <<"release">>, <<"press", "release">>, <<"release", "press">> }

\* ButtonInput::press and ButtonInput::release
ButtonApply(b, ev) ==
  IF ev = "press"
  THEN IF b.pressed THEN b
       ELSE [b EXCEPT !.pressed = TRUE, !.just_pressed = TRUE]
  ELSE IF b.pressed
       THEN [b EXCEPT !.pressed = FALSE, !.just_released = TRUE]
       ELSE b

RECURSIVE ButtonFeed(_, _, _)
ButtonFeed(b, evs, i) ==
  IF i > Len(evs) THEN b ELSE ButtonFeed(ButtonApply(b, evs[i]), evs, i + 1)

\* ButtonInput::clear, then the frame's events
ButtonFrame(b, evs) ==
  ButtonFeed([b EXCEPT !.just_pressed = FALSE, !.just_released = FALSE], evs, 1)

TypeOK ==
  /\ space \in TransformGizmoSpace
  /\ IsSome(active_target) => Unwrap(active_target) \in Entities
  /\ IsSome(hovered_axis) => Unwrap(hovered_axis) \in GizmoAxis
  /\ IsSome(hovered_op) => Unwrap(hovered_op) \in GizmoOperation
  /\ IsSome(drag) => Unwrap(drag).target \in Entities
  /\ snap \in SnapSettings
  /\ style \in Styles
  /\ gizmo_active \subseteq Entities
  /\ input \in HoverInputs \cup DragStarts \cup DragMoves
  /\ pc \in {"host", "sync", "hover", "begin", "drag", "end", "draw", "post"}
  /\ frame \in 0..MaxFrames
  /\ edits \in 0..MaxHostEdits

Init ==
  /\ space = "Local"
  /\ active_target = None
  /\ hovered_axis = None
  /\ hovered_op = None
  /\ drag = None
  /\ snap = SnapOff
  /\ style = DefaultStyle
  /\ transform = [e \in Entities |-> InitialPose(e)]
  /\ global = [e \in Entities |-> InitialPose(e)]
  /\ gizmo_active = {}
  /\ buttons = [pressed |-> FALSE, just_pressed |-> FALSE, just_released |-> FALSE]
  /\ input = Frame(TRUE, TRUE, FALSE, DownZ, None)
  /\ pc = "host"
  /\ frame = 0
  /\ edits = 0

(***************************************************************************)
(* Host steps, between two runs of the system chain.                       *)
(***************************************************************************)
HostSetSpace ==
  /\ pc = "host"
  /\ edits < MaxHostEdits
  /\ edits' = edits + 1
  /\ space' = IF space = "World" THEN "Local" ELSE "World"
  /\ UNCHANGED << style, active_target, hovered_axis, hovered_op, drag, snap, transform,
                  global, gizmo_active, buttons, input, pc, frame >>

HostSetSnap ==
  /\ pc = "host"
  /\ edits < MaxHostEdits
  /\ edits' = edits + 1
  /\ \E sn \in SnapSettings \ {snap} : snap' = sn
  /\ UNCHANGED << space, style, active_target, hovered_axis, hovered_op, drag, transform,
                  global, gizmo_active, buttons, input, pc, frame >>

HostSetStyle ==
  /\ pc = "host"
  /\ edits < MaxHostEdits
  /\ edits' = edits + 1
  /\ \E st \in Styles \ {style} : style' = st
  /\ UNCHANGED << space, active_target, hovered_axis, hovered_op, drag, snap,
                  transform, global, gizmo_active, buttons, input, pc, frame >>

HostSetTransform ==
  /\ pc = "host"
  /\ edits < MaxHostEdits
  /\ edits' = edits + 1
  /\ \E e \in Entities, p \in Poses :
       /\ transform[e] # p
       /\ transform' = [transform EXCEPT ![e] = p]
  /\ UNCHANGED << space, style, active_target, hovered_axis, hovered_op, drag, snap,
                  global, gizmo_active, buttons, input, pc, frame >>

HostSetGizmoActive ==
  /\ pc = "host"
  /\ edits < MaxHostEdits
  /\ edits' = edits + 1
  /\ \E m \in (SUBSET Entities) \ {gizmo_active} : gizmo_active' = m
  /\ UNCHANGED << space, style, active_target, hovered_axis, hovered_op, drag, snap,
                  transform, global, buttons, input, frame, pc >>

\* a new frame: the input systems run, then the chain starts
BeginFrame ==
  /\ pc = "host"
  /\ frame < MaxFrames
  /\ frame' = frame + 1
  /\ \E evs \in ButtonEvents : buttons' = ButtonFrame(buttons, evs)
  /\ \E i \in Inputs : input' = i
  /\ pc' = "sync"
  /\ UNCHANGED << space, style, active_target, hovered_axis, hovered_op, drag, snap,
                  transform, global, gizmo_active, edits >>

(***************************************************************************)
(* The system chain of TransformGizmoPlugin::build, one action per system. *)
(***************************************************************************)
\* the first entity of a query over a set of entities
First(S) == CHOOSE e \in S : \A o \in S : e <= o

\* `cameras.iter().next()`, `windows.iter().next()`, `window.cursor_position()`
\* and `camera.viewport_to_world(..)` all succeed
HasRay == input.camera /\ input.window /\ input.cursor /\ IsSome(input.ray)

\* mutant: without a marked target the active target is cleared
sync_active_target_Clears(at, marked) ==
  IF marked # {} THEN Some(First(marked)) ELSE None

sync_active_target(at, marked) ==
  IF marked # {} THEN Some(First(marked)) ELSE at

SyncActiveTarget ==
  /\ pc = "sync"
  /\ active_target' = sync_active_target(active_target, gizmo_active)
  /\ pc' = "hover"
  /\ UNCHANGED << space, style, hovered_axis, hovered_op, drag, snap, transform, global,
                  gizmo_active, buttons, input, frame, edits >>

\* mutant: a hit sets the hover and leaves active_target as it was
HoverOf_KeepTarget(at, b) ==
  IF IsSome(b.best_target) /\ IsSome(b.best)
  THEN <<at, Some(Unwrap(b.best)[2]), Some(Unwrap(b.best)[1])>>
  ELSE <<at, None, None>>

\* the hover the hit test computes when it runs
HoverOf(at, b) ==
  IF IsSome(b.best_target) /\ IsSome(b.best)
  THEN <<b.best_target, Some(Unwrap(b.best)[2]), Some(Unwrap(b.best)[1])>>
  ELSE <<at, None, None>>

\* mutant: with camera, window or cursor missing the hovered operation stays
HitTest_KeepsOp(at) ==
  IF ~HasRay THEN <<at, None, hovered_op>>
  ELSE HoverOf(at, ClosestHit(Unwrap(input.ray), space, global))

\* update_hovered_axis past the drag check
HitTest(at) ==
  IF ~HasRay THEN <<at, None, None>>
  ELSE HoverOf(at, ClosestHit(Unwrap(input.ray), space, global))

\* mutant: the hit test also runs while a drag is in progress
update_hovered_axis_WhileDragging(d, at, ha, ho) == HitTest(at)

\* the (active_target, hovered_axis, hovered_op) update_hovered_axis leaves
update_hovered_axis(d, at, ha, ho) ==
  IF IsSome(d) THEN <<at, ha, ho>> ELSE HitTest(at)

UpdateHoveredAxis ==
  /\ pc = "hover"
  /\ \E r \in {update_hovered_axis(drag, active_target, hovered_axis, hovered_op)} :
       /\ active_target' = r[1]
       /\ hovered_axis' = r[2]
       /\ hovered_op' = r[3]
  /\ pc' = "begin"
  /\ UNCHANGED << space, style, drag, snap, transform, global, gizmo_active, buttons,
                  input, frame, edits >>

\* begin_drag from `let Some(axis) = state.hovered_axis` on
CaptureDrag(d) ==
  IF IsNone(hovered_axis) THEN d
  ELSE IF IsNone(hovered_op) THEN d
  ELSE IF ~HasRay THEN d
  ELSE IF IsNone(active_target) THEN d
  ELSE IF Unwrap(active_target) \notin Entities THEN d
  ELSE Some(NewDrag(Unwrap(active_target), Unwrap(hovered_op), Unwrap(hovered_axis),
                    global[Unwrap(active_target)], space, input.forward,
                    Unwrap(input.ray)))

\* mutant: no `if state.drag.is_some() { return; }`
begin_drag_NoReject(d) ==
  IF ~buttons.just_pressed THEN d ELSE CaptureDrag(d)

\* mutant: `buttons.pressed` in place of `buttons.just_pressed`
begin_drag_WhileHeld(d) ==
  IF ~buttons.pressed THEN d
  ELSE IF IsSome(d) THEN d
  ELSE CaptureDrag(d)

\* the state.drag begin_drag leaves
begin_drag(d) ==
  IF ~buttons.just_pressed THEN d
  ELSE IF IsSome(d) THEN d
  ELSE CaptureDrag(d)

\* mutant: drag_gizmo is scheduled after end_drag's slot is taken, so the
\* chain goes from begin_drag straight to end_drag
BeginDrag_SkipUpdate ==
  /\ pc = "begin"
  /\ drag' = begin_drag(drag)
  /\ pc' = "end"
  /\ UNCHANGED << space, style, active_target, hovered_axis, hovered_op, snap, transform,
                  global, gizmo_active, buttons, input, frame, edits >>

BeginDrag ==
  /\ pc = "begin"
  /\ drag' = begin_drag(drag)
  /\ pc' = "drag"
  /\ UNCHANGED << space, style, active_target, hovered_axis, hovered_op, snap, transform,
                  global, gizmo_active, buttons, input, frame, edits >>

\* mutant: a missing cursor falls back to a default ray
drag_gizmo_DefaultRay(trs) ==
  IF IsNone(drag) THEN trs
  ELSE IF ~buttons.pressed THEN trs
  ELSE [trs EXCEPT ![Unwrap(drag).target] =
          DragUpdate(Unwrap(drag), snap, @,
                     UnwrapOr(input.ray, Ray(<<0, 0, 10000>>, DownZ)))]

\* mutant: the update is written to every target
drag_gizmo_AllTargets(trs) ==
  IF IsNone(drag) THEN trs
  ELSE IF ~buttons.pressed THEN trs
  ELSE IF ~HasRay THEN trs
  ELSE [e \in Entities |-> DragUpdate(Unwrap(drag), snap, trs[e], Unwrap(input.ray))]

\* the Transform components drag_gizmo leaves
drag_gizmo(trs) ==
  IF IsNone(drag) THEN trs
  ELSE IF ~buttons.pressed THEN trs
  ELSE IF ~HasRay THEN trs
  ELSE IF Unwrap(drag).target \notin Entities THEN trs
  ELSE [trs EXCEPT ![Unwrap(drag).target] =
          DragUpdate(Unwrap(drag), snap, @, Unwrap(input.ray))]

\* mutant: a lost camera, window or cursor aborts the drag
drag_gizmo_snapshot_Abort(d) == IF ~HasRay THEN None ELSE d

\* mutant: the update rebases the snapshot on the transform it just wrote
drag_gizmo_snapshot_Rebase(d) ==
  IF IsSome(d) /\ buttons.pressed /\ HasRay
  THEN Some([Unwrap(d) EXCEPT
               !.start_translation = drag_gizmo(transform)[Unwrap(d).target].translation])
  ELSE d

\* the state.drag drag_gizmo leaves: it holds `state.drag.as_mut()` and
\* assigns none of its fields
drag_gizmo_snapshot(d) == d

DragGizmo ==
  /\ pc = "drag"
  /\ transform' = drag_gizmo(transform)
  /\ drag' = drag_gizmo_snapshot(drag)
  /\ pc' = "end"
  /\ UNCHANGED << space, style, active_target, hovered_axis, hovered_op, snap, global,
                  gizmo_active, buttons, input, frame, edits >>

\* mutant: the release is not acted on
end_drag_Keep(d) == d

end_drag(d) == IF buttons.just_released THEN None ELSE d

EndDrag ==
  /\ pc = "end"
  /\ drag' = end_drag(drag)
  /\ pc' = "draw"
  /\ UNCHANGED << space, style, active_target, hovered_axis, hovered_op, snap, transform,
                  global, gizmo_active, buttons, input, frame, edits >>

(***************************************************************************)
(* draw.rs: the colour state of a handle, one of the three fields of       *)
(* AxisColors.  d is state.drag, at, ha and ho are state.active_target,    *)
(* state.hovered_axis and state.hovered_op.                                *)
(***************************************************************************)
is_axis_active(d, target, op, axis) ==
  IF IsSome(d)
  THEN Unwrap(d).target = target /\ Unwrap(d).op = op /\ Unwrap(d).axis = axis
  ELSE FALSE

\* `if is_active { active } else if is_hovered { hover } else { idle }`
ColorOf(is_active, is_hovered) ==
  IF is_active THEN "active" ELSE IF is_hovered THEN "hover" ELSE "idle"

\* mutant: the hover is looked at before the drag
gizmo_display_color_HoverFirst(d, at, ha, ho, target, axis, op) ==
  IF at = Some(target) /\ ha = Some(axis) /\ ho = Some(op) THEN "hover"
  ELSE IF is_axis_active(d, target, op, axis) THEN "active"
  ELSE "idle"

gizmo_display_color(d, at, ha, ho, target, axis, op) ==
  ColorOf(is_axis_active(d, target, op, axis),
          at = Some(target) /\ ha = Some(axis) /\ ho = Some(op))

\* the colour of the uniform scale square in draw_gizmo: the axis is not
\* looked at
scale_uniform_color(d, at, ho, target) ==
  ColorOf(IsSome(d) /\ Unwrap(d).target = target /\ Unwrap(d).op = "ScaleUniform",
          at = Some(target) /\ ho = Some("ScaleUniform"))

\* the colour draw_gizmo gives the handle (op, axis) of a target
HandleColor(d, at, ha, ho, target, op, axis) ==
  IF op = "ScaleUniform" THEN scale_uniform_color(d, at, ho, target)
  ELSE gizmo_display_color(d, at, ha, ho, target, axis, op)

\* draw_gizmo reads the state and mutates none of it
DrawGizmo ==
  /\ pc = "draw"
  /\ pc' = "post"
  /\ UNCHANGED << space, style, active_target, hovered_axis, hovered_op, drag, snap,
                  transform, global, gizmo_active, buttons, input, frame, edits >>

\* PostUpdate: transform propagation; the targets are root entities
PropagateTransforms ==
  /\ pc = "post"
  /\ global' = transform
  /\ pc' = "host"
  /\ UNCHANGED << space, style, active_target, hovered_axis, hovered_op, drag, snap,
                  transform, gizmo_active, buttons, input, frame, edits >>

Next ==
  \/ HostSetSpace
  \/ HostSetSnap
  \/ HostSetStyle
  \/ HostSetTransform
  \/ HostSetGizmoActive
  \/ BeginFrame
  \/ SyncActiveTarget
  \/ UpdateHoveredAxis
  \/ BeginDrag
  \/ DragGizmo
  \/ EndDrag
  \/ DrawGizmo
  \/ PropagateTransforms

Spec == Init /\ [][Next]_vars

(***************************************************************************)
(* The hit test on its own: update_hovered_axis applied once to every      *)
(* combination of target poses, space, style and cursor ray below.         *)
(***************************************************************************)
InitHover ==
  /\ space \in TransformGizmoSpace
  /\ active_target \in {None, Some(2)}
  /\ hovered_axis = None
  /\ hovered_op = None
  /\ drag = None
  /\ snap = SnapOff
  /\ style \in Styles
  /\ global \in [Entities -> HoverPoses]
  /\ transform = global
  /\ gizmo_active = {}
  /\ buttons = [pressed |-> FALSE, just_pressed |-> FALSE, just_released |-> FALSE]
  /\ input \in HoverInputs
  /\ pc = "hover"
  /\ frame = 1
  /\ edits = 0

NextHover == UpdateHoveredAxis

SpecHover == InitHover /\ [][NextHover]_vars

(***************************************************************************)
(* The drag update on its own: a frame with a press on each of DragStarts, *)
(* then frames with the button held and the cursor on each of DragMoves.   *)
(***************************************************************************)
InitDrag ==
  /\ space \in TransformGizmoSpace
  /\ active_target = None
  /\ hovered_axis = None
  /\ hovered_op = None
  /\ drag = None
  /\ snap \in SnapSettings
  /\ style = DefaultStyle
  /\ global \in [Entities -> DragPoses \cup {PoseBehind}]
  /\ global[1] \in DragPoses
  /\ global[2] = PoseBehind
  /\ transform = global
  /\ gizmo_active = {}
  /\ buttons = [pressed |-> TRUE, just_pressed |-> TRUE, just_released |-> FALSE]
  /\ input \in DragStarts
  /\ pc = "sync"
  /\ frame = 1
  /\ edits = 0

\* a new frame with the button held and the cursor moved
DragFrame ==
  /\ pc = "host"
  /\ frame < MaxFrames
  /\ frame' = frame + 1
  /\ buttons' = ButtonFrame(buttons, <<>>)
  /\ \E i \in DragMoves : input' = i
  /\ pc' = "sync"
  /\ UNCHANGED << space, style, active_target, hovered_axis, hovered_op, drag, snap,
                  transform, global, gizmo_active, edits >>

NextDrag ==
  \/ DragFrame
  \/ SyncActiveTarget
  \/ UpdateHoveredAxis
  \/ BeginDrag
  \/ DragGizmo
  \/ EndDrag
  \/ DrawGizmo
  \/ PropagateTransforms

SpecDrag == InitDrag /\ [][NextDrag]_vars

(***************************************************************************)
(* Properties of the drag state machine.                                   *)
(***************************************************************************)
\* the drag target's handle and the live cursor ray
DragRay == ray_plane_intersection(Unwrap(input.ray), Unwrap(drag).plane_origin,
                                  Unwrap(drag).plane_normal)

\* the snapshot a press in the current frame would capture
Recaptured ==
  NewDrag(Unwrap(drag).target, Unwrap(drag).op, Unwrap(drag).axis,
          global[Unwrap(drag).target], space, input.forward, Unwrap(input.ray))

\* C1: begin_drag on a primary-button press while a drag is active rejects
\* the attempt: state.drag keeps the original drag, equal in every field.
C1_SecondDragRejected ==
  [][(pc = "begin" /\ buttons.just_pressed /\ IsSome(drag)) => drag' = drag]_vars

\* begin_drag has run on a press with a drag active, and the drag kept is not
\* the one the press would have captured
C1_Witness ==
  /\ pc = "drag"
  /\ buttons.just_pressed
  /\ IsSome(drag)
  /\ IsSome(CaptureDrag(None))
  /\ CaptureDrag(None) # drag

\* C2: state.drag goes from None to Some only in begin_drag, in a frame whose
\* primary button was just pressed and with a hovered axis, a hovered
\* operation and an active target; otherwise begin_drag leaves it None.
C2_DragCreatedOnlyOnPressWithHover ==
  [][(IsNone(drag) /\ IsSome(drag'))
       => /\ pc = "begin"
          /\ buttons.just_pressed
          /\ IsSome(hovered_axis)
          /\ IsSome(hovered_op)
          /\ IsSome(active_target)]_vars

\* begin_drag has created a drag in the first frame
C2_Witness ==
  /\ pc = "drag"
  /\ frame = 1
  /\ IsSome(drag)
  /\ buttons.just_pressed
  /\ IsSome(hovered_axis) /\ IsSome(hovered_op) /\ IsSome(active_target)

\* C3: in a frame in which the release is observed end_drag sets state.drag
\* to None, and while no drag exists no system of the chain changes any
\* target's transform.
C3_ReleaseClearsDrag ==
  [][/\ (pc = "end" /\ buttons.just_released) => IsNone(drag')
     /\ (pc # "host" /\ IsNone(drag)) => transform' = transform]_vars

\* end_drag has cleared a drag on release: the hover kept through a frame
\* without a ray shows that the drag was active when the frame began
C3_Witness ==
  /\ pc = "draw"
  /\ buttons.just_released
  /\ IsNone(drag)
  /\ IsSome(hovered_op)
  /\ ~HasRay

\* C4: an active drag ends only in end_drag in a frame in which the release
\* is observed; it persists through every other step, also when the camera,
\* the window or the cursor is lost.
C4_NoMidDragAbort ==
  [][(IsSome(drag) /\ IsNone(drag')) => (pc = "end" /\ buttons.just_released)]_vars

\* a drag that has gone through a whole chain without camera, window or cursor
C4_Witness ==
  /\ pc = "draw"
  /\ IsSome(drag)
  /\ ~HasRay
  /\ ~buttons.just_released

\* C5: while a drag is in progress update_hovered_axis leaves hovered_axis,
\* hovered_op and active_target unchanged.
C5_HitTestSkippedWhileDragging ==
  [][(pc = "hover" /\ IsSome(drag))
       => UNCHANGED << hovered_axis, hovered_op, active_target >>]_vars

\* update_hovered_axis has run during a drag and kept a hover that the hit
\* test of this frame would have replaced
C5_Witness ==
  /\ pc = "begin"
  /\ IsSome(drag)
  /\ HasRay
  /\ HitTest(active_target) # << active_target, hovered_axis, hovered_op >>

\* C6: from its creation to the release the drag snapshot keeps every field,
\* across every drag update and every change of the target's transform or of
\* the space setting.
C6_SnapshotReadOnly ==
  [][(IsSome(drag) /\ IsSome(drag')) => drag' = drag]_vars

\* a drag update has run in a later frame, where a fresh capture would differ
C6_Witness ==
  /\ pc = "end"
  /\ IsSome(drag)
  /\ buttons.pressed
  /\ ~buttons.just_pressed
  /\ HasRay
  /\ Recaptured # Unwrap(drag)

\* C7: without camera, window or cursor drag_gizmo leaves the transforms and
\* the snapshot unchanged and begin_drag creates no drag.
C7_MissingInputNoOp ==
  [][(~input.camera \/ ~input.window \/ ~input.cursor)
       => /\ pc = "drag" => (transform' = transform /\ drag' = drag)
          /\ (pc = "begin" /\ IsNone(drag)) => IsNone(drag')]_vars

\* drag_gizmo has run on an active, held drag without a cursor
C7_Witness ==
  /\ pc = "end"
  /\ IsSome(drag)
  /\ buttons.pressed
  /\ ~input.cursor

\* C8: a drag update whose ray/plane intersection reports none leaves the
\* target's transform as it was.
C8_NoIntersectionNoOp ==
  [][(pc = "drag" /\ IsSome(drag) /\ buttons.pressed /\ HasRay /\ IsNone(DragRay))
       => transform' = transform]_vars

\* C9: there is at most one drag, and a system of the chain changes the
\* transform of a target only in drag_gizmo and only for the drag's target.
C9_OnlyDragTargetWritten ==
  [][/\ Len(drag') <= 1
     /\ pc # "host"
          => \A e \in Entities :
               transform'[e] # transform[e]
                 => (pc = "drag" /\ IsSome(drag) /\ e = Unwrap(drag).target)]_vars

\* drag_gizmo has moved the drag's target and no other, with no host edit
C9_Witness ==
  /\ pc = "end"
  /\ edits = 0
  /\ IsSome(drag)
  /\ transform[Unwrap(drag).target] # global[Unwrap(drag).target]
  /\ \A e \in Entities \ {Unwrap(drag).target} : transform[e] = global[e]

\* the accepted hits of one target, in the order the code tests the handles:
\* none when the ray misses the target's bounding sphere
AcceptedOf(ray, sp, gl, entity) ==
  IF IsNone(BoundsHit(ray, GizmoFrameNew(gl[entity], sp))) THEN <<>>
  ELSE LET hits == HandleHits(ray, GizmoFrameNew(gl[entity], sp))
       IN SelectSeq([i \in 1..Len(hits) |-> [entity |-> entity, h |-> hits[i]]],
                    LAMBDA x : IsSome(x.h.t))

\* the accepted hits of every target, targets in query order
RECURSIVE AcceptedHits(_, _, _, _)
AcceptedHits(ray, sp, gl, entity) ==
  IF entity \notin Entities THEN <<>>
  ELSE AcceptedOf(ray, sp, gl, entity) \o AcceptedHits(ray, sp, gl, entity + 1)

\* the first hit, in iteration order, among those with the smallest t
Nearest(hits) ==
  CHOOSE i \in 1..Len(hits) :
    /\ \A j \in 1..Len(hits) : Unwrap(hits[i].h.t) <= Unwrap(hits[j].h.t)
    /\ \A j \in 1..(i - 1) : Unwrap(hits[j].h.t) > Unwrap(hits[i].h.t)

\* C10: with no drag active the hit test leaves the hover on the accepted
\* hit with the smallest ray parameter t among the accepted hits of all
\* targets and handles, the first in iteration order among equals.
C10_NearestAcceptedHitWins ==
  [][(pc = "hover" /\ IsNone(drag) /\ HasRay)
       => LET hits == AcceptedHits(Unwrap(input.ray), space, global, 1)
          IN IF hits = <<>>
             THEN /\ active_target' = active_target
                  /\ hovered_axis' = None
                  /\ hovered_op' = None
             ELSE /\ active_target' = Some(hits[Nearest(hits)].entity)
                  /\ hovered_axis' = Some(hits[Nearest(hits)].h.axis)
                  /\ hovered_op' = Some(hits[Nearest(hits)].h.op)]_vars

(***************************************************************************)
(* Properties of the hit test and of the frame.                            *)
(***************************************************************************)
\* the best hit of the search over the live cursor ray
LiveHit == ClosestHit(Unwrap(input.ray), space, global)

\* C11: a hit test with no drag active leaves active_target on the target
\* that owns the winning hit and hovered_axis, hovered_op on that handle's
\* axis and operation; with nothing hit, or with camera, window or cursor
\* missing, it leaves hovered_axis and hovered_op both None.
C11_HoverSideEffect ==
  [][(pc = "hover" /\ IsNone(drag))
       => IF HasRay /\ IsSome(LiveHit.best)
          THEN /\ active_target' = LiveHit.best_target
               /\ IsSome(active_target')
               /\ hovered_op' = Some(Unwrap(LiveHit.best)[1])
               /\ hovered_axis' = Some(Unwrap(LiveHit.best)[2])
          ELSE hovered_axis' = None /\ hovered_op' = None]_vars

\* the hit test has moved active_target from the marked target, which
\* sync_active_target had selected, to the owner of the winning hit
C11_Witness ==
  /\ pc = "begin"
  /\ IsNone(drag)
  /\ HasRay
  /\ IsSome(hovered_axis) /\ IsSome(hovered_op)
  /\ gizmo_active = {2}
  /\ active_target = Some(1)

\* the successor of each position of a frame: the systems in the order of
\* the chain, then transform propagation, then the host until the next frame
PhaseOrder ==
  { <<"host", "sync">>, <<"sync", "hover">>, <<"hover", "begin">>,
    <<"begin", "drag">>, <<"drag", "end">>, <<"end", "draw">>,
    <<"draw", "post">>, <<"post", "host">> }

\* C12: within a frame the systems run once each in the order sync, hit test,
\* drag begin, drag update, drag end, render, with no step of the host in
\* between; a drag begun in a frame is captured from the hover of that
\* frame's hit test, and drag_gizmo runs on it in that same frame (with the
\* button still held it writes the drag's update to the target).
C12_PhasesInOrder ==
  [][/\ pc' # pc => <<pc, pc'>> \in PhaseOrder
     /\ pc # "host" => (pc' # pc /\ frame' = frame)
     /\ frame' # frame => (frame' = frame + 1 /\ pc = "host" /\ pc' = "sync")
     /\ (pc = "begin" /\ IsNone(drag) /\ IsSome(drag'))
          => /\ << active_target, hovered_axis, hovered_op >> = HitTest(active_target)
             /\ Unwrap(drag').target = Unwrap(active_target)
             /\ Unwrap(drag').op = Unwrap(hovered_op)
             /\ Unwrap(drag').axis = Unwrap(hovered_axis)
     /\ (pc = "drag" /\ IsSome(drag) /\ drag = begin_drag(None) /\ buttons.pressed)
          => transform'[Unwrap(drag).target]
               = DragUpdate(Unwrap(drag), snap, transform[Unwrap(drag).target],
                            Unwrap(input.ray))]_vars

\* a drag begun in the first frame has gone through drag_gizmo in that frame
C12_Witness ==
  /\ pc = "end"
  /\ frame = 1
  /\ buttons.pressed
  /\ IsSome(drag)
  /\ drag = begin_drag(None)
  /\ transform[Unwrap(drag).target]
       = DragUpdate(Unwrap(drag), snap, global[Unwrap(drag).target], Unwrap(input.ray))

\* Vec3::X, Vec3::Y, Vec3::Z by axis
UnitAxis(axis) == CASE axis = "X" -> VecX [] axis = "Y" -> VecY [] axis = "Z" -> VecZ

\* C13: for every target, axis and space, axis_dir for Translate and Rotate
\* is the world unit axis in World space and the target's rotation applied
\* to the unit axis in Local space; axis_dir for Scale is the rotation
\* applied to the unit axis in both.
C13_AxisDirBySpace ==
  \A e \in Entities, axis \in GizmoAxis, sp \in TransformGizmoSpace :
    LET fr == GizmoFrameNew(global[e], sp)
        turned == Rotate(global[e].rotation, UnitAxis(axis))
    IN /\ axis_dir(fr, axis, "Scale") = turned
       /\ \A kind \in {"Translate", "Rotate"} :
            axis_dir(fr, axis, kind) = IF sp = "World" THEN UnitAxis(axis) ELSE turned

\* in World space the hit test has found a scale cube of a turned target on
\* the target's own axis, away from the world axis its translate cone is on
C13_Witness ==
  /\ pc = "begin"
  /\ space = "World"
  /\ hovered_op = Some("ScaleAxis")
  /\ IsSome(active_target)
  /\ LET fr == GizmoFrameNew(global[Unwrap(active_target)], space)
     IN axis_dir(fr, Unwrap(hovered_axis), "Scale")
          # axis_dir(fr, Unwrap(hovered_axis), "Translate")

(***************************************************************************)
(* Properties of the drag update.                                          *)
(***************************************************************************)
\* drag_gizmo is about to apply the operation op to the drag's target, with
\* the cursor ray meeting the drag plane
Updating(op) ==
  /\ pc = "drag"
  /\ IsSome(drag)
  /\ Unwrap(drag).op = op
  /\ buttons.pressed
  /\ HasRay
  /\ IsSome(DragRay)

\* the live hit point relative to the gizmo origin, and its projection on
\* the drag axis
LiveVector == VSub(Unwrap(DragRay), Unwrap(drag).origin)
LiveScalar == Dot(LiveVector, Unwrap(drag).axis_dir)

\* C14: a TranslateAxis update with no snap on the axis sets translation to
\* start translation + (current projected scalar - start scalar) * axis
\* direction and leaves rotation and scale; on the world X axis the x
\* component moves by that difference and y, z keep their start values.
C14_TranslateAxisUpdate ==
  [][(Updating("TranslateAxis")
        /\ IsNone(AxisSnapGet(snap.translate, Unwrap(drag).axis)))
       => LET d == Unwrap(drag)
              new == transform'[d.target]
          IN /\ new.translation
                  = VAdd(d.start_translation,
                         VScale(d.axis_dir, LiveScalar - d.start_t))
             /\ new.rotation = transform[d.target].rotation
             /\ new.scale = transform[d.target].scale
             /\ d.axis_dir = VecX
                  => new.translation
                       = << d.start_translation[1] + (LiveScalar - d.start_t),
                            d.start_translation[2], d.start_translation[3] >>]_vars

\* a drag on the world X axis with no snap has moved the target by 3.0 in x
C14_Witness ==
  /\ pc = "end"
  /\ IsSome(drag)
  /\ Unwrap(drag).op = "TranslateAxis"
  /\ Unwrap(drag).axis = "X"
  /\ space = "World"
  /\ snap = SnapOff
  /\ HasRay
  /\ IsSome(DragRay)
  /\ LiveScalar - Unwrap(drag).start_t = 3000
  /\ transform[Unwrap(drag).target].translation
       = VAdd(Unwrap(drag).start_translation, <<3000, 0, 0>>)

\* y is what snapping by step makes of the continuous delta x: with an
\* increment s > 0 an integer multiple of s nearest to x, else x itself
SnappedOrKept(x, step, y) ==
  IF IsSome(step) /\ Unwrap(step) > 0
  THEN /\ y % Unwrap(step) = 0
       /\ 2 * Abs(y - x) <= Unwrap(step)
  ELSE y = x

\* the values snapping by step can make of x: x and the multiples around it
SnapCandidates(x, step) ==
  IF IsSome(step) /\ Unwrap(step) > 0
  THEN {x, (x \div Unwrap(step)) * Unwrap(step),
           ((x \div Unwrap(step)) + 1) * Unwrap(step)}
  ELSE {x}

\* the continuous in-plane delta of a TranslatePlane drag
LivePlaneDelta ==
  VSub(InPlane(LiveVector, Unwrap(drag).plane_normal), Unwrap(drag).start_vector)

\* C15: the delta a translate update applies along an axis is, with a snap
\* increment s > 0 configured for that axis, an integer multiple of s nearest
\* to the continuous delta, and with no increment the continuous delta; for
\* TranslateAxis along the drag axis, for TranslatePlane along each of the
\* two plane axes.
C15_TranslateSnap ==
  [][/\ Updating("TranslateAxis")
          => LET d == Unwrap(drag)
                 step == AxisSnapGet(snap.translate, d.axis)
                 x == LiveScalar - d.start_t
             IN \E y \in SnapCandidates(x, step) :
                  /\ SnappedOrKept(x, step, y)
                  /\ transform'[d.target].translation
                       = VAdd(d.start_translation, VScale(d.axis_dir, y))
     /\ Updating("TranslatePlane")
          => LET d == Unwrap(drag)
                 step1 == AxisSnapGet(snap.translate, d.plane_axis1)
                 step2 == AxisSnapGet(snap.translate, d.plane_axis2)
                 x1 == Dot(LivePlaneDelta, d.plane_dir1)
                 x2 == Dot(LivePlaneDelta, d.plane_dir2)
             IN \E y1 \in SnapCandidates(x1, step1), y2 \in SnapCandidates(x2, step2) :
                  /\ SnappedOrKept(x1, step1, y1)
                  /\ SnappedOrKept(x2, step2, y2)
                  /\ transform'[d.target].translation
                       = VAdd(d.start_translation,
                              VAdd(VScale(d.plane_dir1, y1), VScale(d.plane_dir2, y2)))]_vars

\* a TranslateAxis update has applied a snapped delta that differs from the
\* continuous one
C15_Witness ==
  /\ pc = "end"
  /\ IsSome(drag)
  /\ Unwrap(drag).op = "TranslateAxis"
  /\ buttons.pressed
  /\ HasRay
  /\ IsSome(DragRay)
  /\ IsSome(AxisSnapGet(snap.translate, Unwrap(drag).axis))
  /\ (LiveScalar - Unwrap(drag).start_t)
       % Unwrap(AxisSnapGet(snap.translate, Unwrap(drag).axis)) # 0
  /\ transform[Unwrap(drag).target].translation # Unwrap(drag).start_translation

\* the two axes that are not a
OtherAxes(a) == {"X", "Y", "Z"} \ {a}

\* C16 as stated: a ScaleAxis update with no snap increment on the dragged
\* axis sets that axis's scale component to
\* start scale x (1 + (t - start_t) / start_t), wherever that quotient is
\* defined, and the other two components to their drag-start values; a start
\* scale of 1.0 dragged to twice the start projected distance gives 2.0.
C16_ScaleAxisUpdate ==
  [][(/\ Updating("ScaleAxis")
      /\ IsNone(AxisSnapGet(snap.scale, Unwrap(drag).axis))
      /\ Unwrap(drag).start_t # 0)
       => LET d == Unwrap(drag)
              i == AxisIndex(d.axis)
              new == transform'[d.target]
          IN /\ new.scale[i]
                  = Mul(d.start_scale[i], U + RDiv((LiveScalar - d.start_t) * U, d.start_t))
             /\ \A a \in OtherAxes(d.axis) :
                  new.scale[AxisIndex(a)] = d.start_scale[AxisIndex(a)]
             /\ (d.start_scale[i] = U /\ LiveScalar = 2 * d.start_t)
                  => new.scale[i] = 2 * U
             /\ new.translation = transform[d.target].translation
             /\ new.rotation = transform[d.target].rotation]_vars

\* C16 amended: the divisor is the start projected distance or, where that
\* lies below it, the minimum divisor: the dragged component becomes
\* start scale x (1 + (t - start_t) / max(start_t, MIN_SCALE_DIVISOR)); the
\* other two components keep their drag-start values, and a start scale of
\* 1.0 dragged from 1.0 to 2.0 gives 2.0.
C16_ScaleAxisFloorDivisor ==
  [][(Updating("ScaleAxis") /\ IsNone(AxisSnapGet(snap.scale, Unwrap(drag).axis)))
       => LET d == Unwrap(drag)
              i == AxisIndex(d.axis)
              new == transform'[d.target]
          IN /\ new.scale[i]
                  = Mul(d.start_scale[i],
                        U + RDiv((LiveScalar - d.start_t) * U,
                                 Max(d.start_t, MIN_SCALE_DIVISOR)))
             /\ \A a \in OtherAxes(d.axis) :
                  new.scale[AxisIndex(a)] = d.start_scale[AxisIndex(a)]
             /\ (d.start_scale[i] = U /\ d.start_t > 0 /\ LiveScalar = 2 * d.start_t)
                  => new.scale[i] = 2 * U
             /\ new.translation = transform[d.target].translation
             /\ new.rotation = transform[d.target].rotation]_vars

\* a ScaleAxis update without snap has doubled the dragged component of a
\* start scale whose components differ
C16_Witness ==
  /\ pc = "end"
  /\ IsSome(drag)
  /\ Unwrap(drag).op = "ScaleAxis"
  /\ buttons.pressed
  /\ HasRay
  /\ IsSome(DragRay)
  /\ IsNone(AxisSnapGet(snap.scale, Unwrap(drag).axis))
  /\ LiveScalar = 2 * Unwrap(drag).start_t
  /\ Unwrap(drag).start_scale[1] # Unwrap(drag).start_scale[2]
  /\ transform[Unwrap(drag).target].scale
       = [Unwrap(drag).start_scale EXCEPT ![AxisIndex(Unwrap(drag).axis)] = 2 * @]

\* the live cursor's angle around the drag axis
LiveAngle == AngleAround(Unwrap(drag).axis_dir, LiveVector)

\* C17: a Rotate update with no snap increment on the drag axis sets the
\* rotation to delta_rot * start_rotation, delta_rot the rotation by
\* (current angle - start angle) about the drag axis; about Y, a current
\* angle pi/2 past the start angle gives a pi/2 rotation about Y applied to
\* the start rotation.  Translation and scale are left alone.
C17_RotateUpdate ==
  [][(Updating("Rotate") /\ IsNone(AxisSnapGet(snap.rotate, Unwrap(drag).axis)))
       => LET d == Unwrap(drag)
              new == transform'[d.target]
          IN /\ new.rotation
                  = QuatMul(FromAxisAngle(d.axis_dir, LiveAngle - d.start_t),
                            d.start_rotation)
             /\ (d.axis_dir = VecY /\ LiveAngle - d.start_t = PI \div 2)
                  => new.rotation = QuatMul(FromAxisAngle(VecY, PI \div 2), d.start_rotation)
             /\ new.translation = transform[d.target].translation
             /\ new.scale = transform[d.target].scale]_vars

\* a Rotate update without snap has turned a target whose start rotation is
\* not the identity by pi/2 about Y
C17_Witness ==
  /\ pc = "end"
  /\ IsSome(drag)
  /\ Unwrap(drag).op = "Rotate"
  /\ buttons.pressed
  /\ HasRay
  /\ IsSome(DragRay)
  /\ IsNone(AxisSnapGet(snap.rotate, Unwrap(drag).axis))
  /\ Unwrap(drag).axis_dir = VecY
  /\ LiveAngle - Unwrap(drag).start_t = PI \div 2
  /\ Unwrap(drag).start_rotation # QuatIdentity
  /\ transform[Unwrap(drag).target].rotation
       = QuatMul(FromAxisAngle(VecY, PI \div 2), Unwrap(drag).start_rotation)
  /\ transform[Unwrap(drag).target].rotation
       # QuatMul(Unwrap(drag).start_rotation, FromAxisAngle(VecY, PI \div 2))

\* a drag update of operation op is about to run, whether or not the cursor
\* ray meets the drag plane
UpdatingAnyCursor(op) ==
  /\ pc = "drag" /\ IsSome(drag) /\ Unwrap(drag).op = op
  /\ buttons.pressed /\ HasRay

\* the factors that take the non-zero components of scale a to those of b
FactorsBetween(a, b) == { RDiv(b[i] * U, a[i]) : i \in {j \in 1..3 : a[j] # 0} }

\* b is a by one common factor on all three components
CommonFactor(a, b) == \E f \in FactorsBetween(a, b) : b = VScale(a, f)

Sign(x) == IF x > 0 THEN 1 ELSE IF x < 0 THEN -1 ELSE 0

\* C18 as stated: a ScaleUniform update, for any cursor and any snap setting,
\* writes the start scale times one common factor, and every component of
\* the scale written is positive.
C18_UniformScalePositive ==
  [][UpdatingAnyCursor("ScaleUniform")
       => LET d == Unwrap(drag)
              new == transform'[d.target]
          IN /\ CommonFactor(d.start_scale, new.scale)
             /\ \A i \in 1..3 : new.scale[i] > 0]_vars

\* C18 amended: a ScaleUniform update, for any cursor and any snap setting,
\* writes the start scale times one common factor, and that factor is
\* positive, so that every component keeps the sign it had at drag start:
\* none changes sign, none becomes zero that was not zero.
C18_UniformFactorPositive ==
  [][UpdatingAnyCursor("ScaleUniform")
       => LET d == Unwrap(drag)
              new == transform'[d.target]
          IN /\ \E f \in FactorsBetween(d.start_scale, new.scale) :
                  /\ f > 0
                  /\ new.scale = VScale(d.start_scale, f)
             /\ \A i \in 1..3 : Sign(new.scale[i]) = Sign(d.start_scale[i])
             /\ new.translation = transform[d.target].translation
             /\ new.rotation = transform[d.target].rotation]_vars

\* a ScaleUniform update of a mirrored target has brought the factor down to
\* the floor: the scale written is small, and still mirrored
C18_Witness ==
  /\ pc = "end"
  /\ IsSome(drag)
  /\ Unwrap(drag).op = "ScaleUniform"
  /\ buttons.pressed
  /\ HasRay
  /\ Unwrap(drag).start_scale[1] < 0
  /\ Abs(Unwrap(drag).start_t) > MIN_SCALE_DIVISOR
  /\ transform[Unwrap(drag).target].scale # Unwrap(drag).start_scale
  /\ \A i \in 1..3 : Abs(transform[Unwrap(drag).target].scale[i]) < Abs(Unwrap(drag).start_scale[i])
  /\ transform[Unwrap(drag).target].scale[1] < 0
  /\ transform[Unwrap(drag).target].scale[2] > 0

\* the cursor ray of the frame
CursorRay == Unwrap(input.ray)

\* the spheres the hit test puts around target e: the bounds and, on each
\* axis, the translate cone and the scale cube
SphereOf(center, radius) == [center |-> center, radius |-> radius]

SpheresOf(e) ==
  LET fr == GizmoFrameNew(global[e], space)
  IN {SphereOf(fr.origin, style.bounds_radius)}
       \cup {SphereOf(ConeCenter(fr.origin, NormalizeOrZero(axis_dir(fr, a, "Translate"))),
                      style.translate_hit_radius) : a \in {"X", "Y", "Z"}}
       \cup {SphereOf(VAdd(fr.origin,
                           VScale(NormalizeOrZero(axis_dir(fr, a, "Scale")),
                                  Mul(style.axis_length, style.scale_cube_offset))),
                      style.scale_hit_radius) : a \in {"X", "Y", "Z"}}

HitSpheres == UNION {SpheresOf(e) : e \in Entities}

\* the ray's origin lies inside, outside the sphere s
OriginInside(ray, s) ==
  LengthSquared(VSub(ray.origin, s.center)) < Mul(s.radius, s.radius)
OriginOutside(ray, s) ==
  LengthSquared(VSub(ray.origin, s.center)) > Mul(s.radius, s.radius)

\* the ray's direction leads away from the centre of s
PointsAway(ray, s) == Dot(VSub(s.center, ray.origin), ray.direction) < 0

\* C19: ray_sphere_intersection returns a hit with t = 0 for a ray whose
\* origin lies inside the sphere, none for a ray whose origin is outside the
\* sphere and that points away from it, and never a negative t.
C19_RaySphere ==
  HasRay =>
    \A s \in HitSpheres :
      LET hit == ray_sphere_intersection(CursorRay, s.center, s.radius)
      IN /\ OriginInside(CursorRay, s) => hit = Some(0)
         /\ (OriginOutside(CursorRay, s) /\ PointsAway(CursorRay, s)) => hit = None
         /\ IsSome(hit) => Unwrap(hit) >= 0

\* the hit test has run on a ray that starts inside one sphere, with t = 0,
\* outside of and away from another, with no hit, and outside of and towards
\* a third, with a positive t
C19_Witness ==
  /\ pc = "begin"
  /\ HasRay
  /\ \E s \in HitSpheres :
       /\ OriginInside(CursorRay, s)
       /\ PointsAway(CursorRay, s)
       /\ ray_sphere_intersection(CursorRay, s.center, s.radius) = Some(0)
  /\ \E s \in HitSpheres :
       /\ OriginOutside(CursorRay, s)
       /\ PointsAway(CursorRay, s)
       /\ ray_sphere_intersection(CursorRay, s.center, s.radius) = None
  /\ \E s \in HitSpheres :
       /\ OriginOutside(CursorRay, s)
       /\ ~PointsAway(CursorRay, s)
       /\ IsSome(ray_sphere_intersection(CursorRay, s.center, s.radius))
       /\ Unwrap(ray_sphere_intersection(CursorRay, s.center, s.radius)) > 0

\* the planes the hit test and the drag put through target e: through the
\* frame origin, normal to each rotate axis and to each translate axis
PlaneOf(origin, normal) == [origin |-> origin, normal |-> normal]

PlanesOf(e) ==
  LET fr == GizmoFrameNew(global[e], space)
  IN {PlaneOf(fr.origin, NormalizeOrZero(axis_dir(fr, a, k))) :
        a \in {"X", "Y", "Z"}, k \in {"Rotate", "Translate"}}

HitPlanes == UNION {PlanesOf(e) : e \in Entities}

\* the signed distance of point p from plane pl, along the normal
PlaneDistance(p, pl) == Dot(VSub(p, pl.origin), pl.normal)

\* the plane pl lies behind the origin of the ray: the ray leads away from it
PlaneBehind(ray, pl) ==
  \/ PlaneDistance(ray.origin, pl) > 0 /\ Dot(pl.normal, ray.direction) > 0
  \/ PlaneDistance(ray.origin, pl) < 0 /\ Dot(pl.normal, ray.direction) < 0

\* p lies on the plane pl, to the resolution of the arithmetic: the rounding
\* of the ray parameter and of the point leaves at most one quantum
OnPlane(p, pl) == Abs(PlaneDistance(p, pl)) <= 1

\* C20: ray_plane_intersection returns none for a ray parallel to the plane,
\* |dot(normal, direction)| below epsilon, and none for a plane behind the
\* ray's origin; a point it returns lies on the plane and at a non-negative
\* ray parameter.
C20_RayPlane ==
  HasRay =>
    \A pl \in HitPlanes :
      LET hit == ray_plane_intersection(CursorRay, pl.origin, pl.normal)
      IN /\ BelowEpsilon(Abs(Dot(pl.normal, CursorRay.direction))) => hit = None
         /\ PlaneBehind(CursorRay, pl) => hit = None
         /\ IsSome(hit) =>
              /\ OnPlane(Unwrap(hit), pl)
              /\ Dot(VSub(Unwrap(hit), CursorRay.origin), CursorRay.direction) >= 0

\* the hit test has run on a ray that is parallel to one plane and leads away
\* from another, with no point for either, and that meets a third, oblique
\* to the ray, in a point ahead
C20_Witness ==
  /\ pc = "begin"
  /\ HasRay
  /\ \E pl \in HitPlanes :
       /\ BelowEpsilon(Abs(Dot(pl.normal, CursorRay.direction)))
       /\ ray_plane_intersection(CursorRay, pl.origin, pl.normal) = None
  /\ \E pl \in HitPlanes :
       /\ PlaneBehind(CursorRay, pl)
       /\ ray_plane_intersection(CursorRay, pl.origin, pl.normal) = None
  /\ \E pl \in HitPlanes :
       /\ Abs(Dot(pl.normal, CursorRay.direction)) \in 1..(U - 1)
       /\ IsSome(ray_plane_intersection(CursorRay, pl.origin, pl.normal))
       /\ OnPlane(Unwrap(ray_plane_intersection(CursorRay, pl.origin, pl.normal)), pl)
       /\ Dot(VSub(Unwrap(ray_plane_intersection(CursorRay, pl.origin, pl.normal)),
                   CursorRay.origin), CursorRay.direction) > 0

\* the handles draw_gizmo colours: one per axis for four operations, and the
\* uniform scale square, which the hit test reports on axis X
DrawnHandles ==
  {<<op, axis>> : op \in GizmoOperation \ {"ScaleUniform"}, axis \in GizmoAxis}
    \cup {<<"ScaleUniform", "X">>}

\* the handle (op, axis) of target e is the one being dragged, the hovered one
DraggedHandle(e, op, axis) ==
  /\ drag # None
  /\ Unwrap(drag).target = e
  /\ Unwrap(drag).op = op
  /\ Unwrap(drag).axis = axis
HoveredHandle(e, op, axis) ==
  /\ active_target = Some(e)
  /\ hovered_op = Some(op)
  /\ hovered_axis = Some(axis)

\* C21: when draw_gizmo runs, every handle (op, axis) of every target has
\* the active colour if it is the dragged handle, otherwise the hover colour
\* if it is the hovered handle of the active target, otherwise the idle
\* colour; nothing but the handle's own dragged and hovered state enters.
C21_ColourPriority ==
  pc = "draw" =>
    \A e \in Entities : \A h \in DrawnHandles :
      HandleColor(drag, active_target, hovered_axis, hovered_op, e, h[1], h[2])
        = IF DraggedHandle(e, h[1], h[2]) THEN "active"
          ELSE IF HoveredHandle(e, h[1], h[2]) THEN "hover"
          ELSE "idle"

\* draw_gizmo is about to run with a handle that is both dragged and hovered
\* and is given the active colour, while every other handle is idle
C21_Witness ==
  /\ pc = "draw"
  /\ \E e \in Entities : \E h \in DrawnHandles :
       /\ DraggedHandle(e, h[1], h[2])
       /\ HoveredHandle(e, h[1], h[2])
       /\ h[1] # "ScaleUniform"
       /\ HandleColor(drag, active_target, hovered_axis, hovered_op, e, h[1], h[2])
            = "active"
       /\ \A e2 \in Entities : \A h2 \in DrawnHandles :
            (<<e2, h2>> # <<e, h>>)
              => HandleColor(drag, active_target, hovered_axis, hovered_op,
                             e2, h2[1], h2[2]) = "idle"

\* every component of the scale s is a finite f32
FiniteScale(s) == \A i \in 1..3 : Abs(s[i]) <= F32_MAX

\* the length of the live vector, zero when the cursor ray misses the drag plane
LiveLength == IF IsSome(DragRay) THEN Length(LiveVector) ELSE 0

\* C22 as stated: when the start distance of a ScaleAxis or ScaleUniform drag
\* lies below the minimum divisor, the update divides by the minimum divisor
\* in its place: without snap ScaleAxis writes
\* start scale x (1 + (t - start_t) / MIN_SCALE_DIVISOR) and ScaleUniform
\* writes start scale x (t / MIN_SCALE_DIVISOR); the scale written is finite.
C22_MinDivisorInBoth ==
  [][/\ (/\ Updating("ScaleAxis")
         /\ Unwrap(drag).start_t < MIN_SCALE_DIVISOR
         /\ IsNone(AxisSnapGet(snap.scale, Unwrap(drag).axis)))
          => LET d == Unwrap(drag)
                 i == AxisIndex(d.axis)
             IN /\ transform'[d.target].scale[i]
                     = Mul(d.start_scale[i],
                           U + FDiv(LiveScalar - d.start_t, MIN_SCALE_DIVISOR))
                /\ FiniteScale(transform'[d.target].scale)
     /\ (/\ UpdatingAnyCursor("ScaleUniform")
         /\ Unwrap(drag).start_t < MIN_SCALE_DIVISOR
         /\ IsNone(AxisSnapGet(snap.scale, "X")))
          => LET d == Unwrap(drag)
             IN /\ transform'[d.target].scale
                     = VScale(d.start_scale, Max(FDiv(LiveLength, MIN_SCALE_DIVISOR), 1))
                /\ FiniteScale(transform'[d.target].scale)]_vars

\* C22 amended: a ScaleAxis update whose start distance lies below the
\* minimum divisor divides by the minimum divisor in its place; a
\* ScaleUniform update whose start distance does not exceed the minimum
\* divisor does not divide at all and takes the factor 1.0, so that without
\* snap it writes the start scale; with or without snap the scale written is
\* finite.
C22_MinDivisorOrUnitFactor ==
  [][/\ (Updating("ScaleAxis") /\ Unwrap(drag).start_t < MIN_SCALE_DIVISOR)
          => LET d == Unwrap(drag)
                 i == AxisIndex(d.axis)
             IN /\ IsNone(AxisSnapGet(snap.scale, d.axis))
                     => transform'[d.target].scale[i]
                          = Mul(d.start_scale[i],
                                U + FDiv(LiveScalar - d.start_t, MIN_SCALE_DIVISOR))
                /\ FiniteScale(transform'[d.target].scale)
     /\ (UpdatingAnyCursor("ScaleUniform") /\ Abs(Unwrap(drag).start_t) <= MIN_SCALE_DIVISOR)
          => LET d == Unwrap(drag)
             IN /\ IsNone(AxisSnapGet(snap.scale, "X"))
                     => transform'[d.target].scale = d.start_scale
                /\ FiniteScale(transform'[d.target].scale)]_vars

\* a ScaleAxis drag that began with the start distance zero has been updated
\* with the cursor off the start: the dragged component is the start scale
\* times one more than a thousand times the distance
C22_Witness ==
  /\ pc = "end"
  /\ IsSome(drag)
  /\ Unwrap(drag).op = "ScaleAxis"
  /\ Unwrap(drag).start_t = 0
  /\ buttons.pressed
  /\ HasRay
  /\ IsSome(DragRay)
  /\ IsNone(AxisSnapGet(snap.scale, Unwrap(drag).axis))
  /\ LiveScalar > 0
  /\ transform[Unwrap(drag).target].scale[AxisIndex(Unwrap(drag).axis)]
       = Unwrap(drag).start_scale[AxisIndex(Unwrap(drag).axis)] * (1 + LiveScalar)

\* the ratio of a ScaleAxis update: (t - start_t) / start_t.max(MIN_SCALE_DIVISOR)
LiveScaleDelta ==
  RDiv((LiveScalar - Unwrap(drag).start_t) * U,
       Max(Unwrap(drag).start_t, MIN_SCALE_DIVISOR))

\* C23: a ScaleAxis update with a snap increment s > 0 on the dragged axis
\* and a non-zero start scale on that axis writes, as that axis's scale
\* component, the multiple of s nearest to start scale x (1 + delta): the
\* resulting scale is rounded, not the ratio.  The other two components keep
\* their drag-start values.
C23_ScaleSnapAbsolute ==
  [][(/\ Updating("ScaleAxis")
      /\ IsSome(AxisSnapGet(snap.scale, Unwrap(drag).axis))
      /\ Unwrap(AxisSnapGet(snap.scale, Unwrap(drag).axis)) > 0
      /\ Unwrap(drag).start_scale[AxisIndex(Unwrap(drag).axis)] # 0)
       => LET d == Unwrap(drag)
              i == AxisIndex(d.axis)
              new == transform'[d.target]
          IN /\ SnappedOrKept(Mul(d.start_scale[i], U + LiveScaleDelta),
                              AxisSnapGet(snap.scale, d.axis), new.scale[i])
             /\ \A a \in OtherAxes(d.axis) :
                  new.scale[AxisIndex(a)] = d.start_scale[AxisIndex(a)]]_vars

\* a ScaleAxis update with snap has written a multiple of the increment that
\* is neither the unsnapped scale nor the start scale times a rounded ratio
C23_Witness ==
  /\ pc = "end"
  /\ IsSome(drag)
  /\ Unwrap(drag).op = "ScaleAxis"
  /\ buttons.pressed
  /\ HasRay
  /\ IsSome(DragRay)
  /\ IsSome(AxisSnapGet(snap.scale, Unwrap(drag).axis))
  /\ LET d == Unwrap(drag)
         i == AxisIndex(d.axis)
         s == Unwrap(AxisSnapGet(snap.scale, d.axis))
         target == Mul(d.start_scale[i], U + LiveScaleDelta)
         written == transform[d.target].scale[i]
     IN /\ s > 0
        /\ target % s # 0
        /\ written % s = 0
        /\ 2 * Abs(written - target) <= s
        /\ written # Mul(d.start_scale[i], SnapTo(U + LiveScaleDelta, s))

\* the two axes that span the plane handle of an axis, as plane_axes lists them
PlaneAxisTable(a) ==
  CASE a = "X" -> <<"Y", "Z">>
    [] a = "Y" -> <<"X", "Z">>
    [] a = "Z" -> <<"X", "Y">>

\* C24: the delta a TranslatePlane update applies has no component along the
\* plane normal, so the translation's component along the normal stays at its
\* start value; its components on the two axes plane_axes gives for the
\* handle are snapped independently, each to the increment of its own axis,
\* and a component whose axis has no increment is the continuous one.
C24_TranslatePlaneSnap ==
  [][Updating("TranslatePlane")
       => LET d == Unwrap(drag)
              new == transform'[d.target].translation
              x1 == Dot(LivePlaneDelta, d.plane_dir1)
              x2 == Dot(LivePlaneDelta, d.plane_dir2)
              y1 == Dot(VSub(new, d.start_translation), d.plane_dir1)
              y2 == Dot(VSub(new, d.start_translation), d.plane_dir2)
          IN /\ <<d.plane_axis1, d.plane_axis2>> = PlaneAxisTable(d.axis)
             /\ Dot(VSub(new, d.start_translation), d.plane_normal) = 0
             /\ Dot(new, d.plane_normal) = Dot(d.start_translation, d.plane_normal)
             /\ SnappedOrKept(x1, AxisSnapGet(snap.translate, d.plane_axis1), y1)
             /\ SnappedOrKept(x2, AxisSnapGet(snap.translate, d.plane_axis2), y2)
             /\ new = VAdd(d.start_translation,
                           VAdd(VScale(d.plane_dir1, y1), VScale(d.plane_dir2, y2)))]_vars

\* a TranslatePlane update has moved the target in the plane by a snapped
\* delta on one plane axis and an unsnapped or differently snapped one on the
\* other
C24_Witness ==
  /\ pc = "end"
  /\ IsSome(drag)
  /\ Unwrap(drag).op = "TranslatePlane"
  /\ buttons.pressed
  /\ HasRay
  /\ IsSome(DragRay)
  /\ LET d == Unwrap(drag)
         moved == VSub(transform[d.target].translation, d.start_translation)
         x1 == Dot(LivePlaneDelta, d.plane_dir1)
         x2 == Dot(LivePlaneDelta, d.plane_dir2)
     IN /\ AxisSnapGet(snap.translate, d.plane_axis1)
             # AxisSnapGet(snap.translate, d.plane_axis2)
        /\ Dot(moved, d.plane_dir1) # 0
        /\ Dot(moved, d.plane_dir2) # 0
        /\ Dot(moved, d.plane_dir1) # x1 \/ Dot(moved, d.plane_dir2) # x2
        /\ Dot(moved, d.plane_normal) = 0

\* the first of a non-empty set of targets in the query's iteration order
FirstMarked(marked) == CHOOSE e \in marked : \A f \in marked : e <= f

\* C25: sync_active_target sets active_target to the first target, in
\* iteration order, that carries the GizmoActive marker, also when several
\* carry it, and leaves active_target as it is when no target carries the
\* marker; nothing else of the state changes.
C25_SyncTakesFirstMarked ==
  [][pc = "sync"
       => /\ gizmo_active # {} => active_target' = Some(FirstMarked(gizmo_active))
          /\ gizmo_active = {} => active_target' = active_target
          /\ UNCHANGED << hovered_axis, hovered_op, drag, gizmo_active >>]_vars

\* the sync has run with the marker on both targets and has made the first
\* of them the active target
C25_Witness ==
  /\ pc = "hover"
  /\ gizmo_active = Entities
  /\ Cardinality(gizmo_active) > 1
  /\ active_target = Some(1)

\* C26: in every reachable state hovered_axis and hovered_op are both Some or
\* both None, and while a drag is active they are the drag's axis and the
\* drag's operation.
C26_HoverConsistent ==
  /\ IsSome(hovered_axis) <=> IsSome(hovered_op)
  /\ IsSome(drag) => /\ hovered_op = Some(Unwrap(drag).op)
                     /\ hovered_axis = Some(Unwrap(drag).axis)

\* a frame after the press, past the hit test: the drag goes on, the cursor
\* is no longer over the dragged handle, and the hover is still that handle
C26_Witness ==
  /\ pc = "begin"
  /\ IsSome(drag)
  /\ ~buttons.just_pressed
  /\ HasRay
  /\ HitTest(active_target) # <<active_target, hovered_axis, hovered_op>>
  /\ hovered_op = Some(Unwrap(drag).op)
  /\ hovered_axis = Some(Unwrap(drag).axis)

\* C27: in every reachable state in which a drag is active, active_target is
\* the drag's target.
C27_ActiveTargetIsDragTarget ==
  IsSome(drag) => active_target = Some(Unwrap(drag).target)

\* the component of a transform that a drag of operation op writes
WrittenPart(op, tr) ==
  CASE op \in {"TranslateAxis", "TranslatePlane"} -> tr.translation
    [] op \in {"ScaleAxis", "ScaleUniform"} -> tr.scale
    [] op = "Rotate" -> tr.rotation

\* the component a drag of operation op captured at drag start
StartPart(d) ==
  CASE d.op \in {"TranslateAxis", "TranslatePlane"} -> d.start_translation
    [] d.op \in {"ScaleAxis", "ScaleUniform"} -> d.start_scale
    [] d.op = "Rotate" -> d.start_rotation

\* a drag update is about to run, of whatever operation
UpdatingAny == pc = "drag" /\ IsSome(drag) /\ buttons.pressed /\ HasRay

\* C28: the value a drag update writes is the same whatever transform the
\* target has when the update runs: it comes from the drag snapshot, the snap
\* configuration and the cursor ray alone; an update with the same ray on the
\* transform just written writes it again unchanged.
C28_UpdateAbsolute ==
  [][UpdatingAny
       => LET d == Unwrap(drag)
              new == transform'[d.target]
          IN /\ \A e \in Entities : \A tr \in {transform[e], global[e], InitialPose(e)} :
                  WrittenPart(d.op, DragUpdate(d, snap, tr, CursorRay))
                    = WrittenPart(d.op, new)
             /\ DragUpdate(d, snap, new, CursorRay) = new]_vars

\* in a frame after the press an update has written a value that is neither
\* the one captured at drag start nor the one the target had a frame earlier
C28_Witness ==
  /\ pc = "end"
  /\ IsSome(drag)
  /\ buttons.pressed
  /\ ~buttons.just_pressed
  /\ HasRay
  /\ LET d == Unwrap(drag)
     IN /\ WrittenPart(d.op, transform[d.target]) # StartPart(d)
        /\ WrittenPart(d.op, transform[d.target]) # WrittenPart(d.op, global[d.target])
        /\ DragUpdate(d, snap, global[d.target], CursorRay) = transform[d.target]

\* the cursor ray is the one of the drag start: a press with it, on the same
\* handle, would capture the snapshot the drag holds
AtStartRay == UpdatingAny /\ Recaptured = Unwrap(drag)

\* the scale increment a scale drag rounds with: the dragged axis's for
\* ScaleAxis, the X axis's for ScaleUniform
ScaleStepOf(d) ==
  IF d.op = "ScaleAxis" THEN AxisSnapGet(snap.scale, d.axis)
                        ELSE AxisSnapGet(snap.scale, "X")

\* a scale drag d rounds the scale it writes to an increment
RoundsScale(d) ==
  /\ d.op \in {"ScaleAxis", "ScaleUniform"}
  /\ IsSome(ScaleStepOf(d))
  /\ Unwrap(ScaleStepOf(d)) > 0

\* C29 as stated: whenever the cursor ray of a drag update is the ray of the
\* drag start, the press frame included, the component written is the value
\* captured at drag start, for every operation and every snap configuration.
C29_ReturnToStart ==
  [][AtStartRay
       => WrittenPart(Unwrap(drag).op, transform'[Unwrap(drag).target])
            = StartPart(Unwrap(drag))]_vars

\* C29: with the cursor ray of the drag start, a translate or rotate update
\* writes the value captured at drag start under every snap configuration,
\* and so does a scale update with no scale increment; with a scale increment
\* s a ScaleAxis update writes the multiple of s nearest to the start scale
\* on the dragged axis, the start scale on the other two, and a ScaleUniform
\* update the start scale times the one factor that takes its x component to
\* the multiple of s nearest to it.
C29_ReturnToStartUnlessScaleSnap ==
  [][AtStartRay
       => LET d == Unwrap(drag)
              new == transform'[d.target]
          IN /\ ~RoundsScale(d) => WrittenPart(d.op, new) = StartPart(d)
             /\ (RoundsScale(d) /\ d.op = "ScaleAxis")
                  => /\ new.scale[AxisIndex(d.axis)]
                          = SnapTo(d.start_scale[AxisIndex(d.axis)], Unwrap(ScaleStepOf(d)))
                     /\ \A a \in OtherAxes(d.axis) :
                          new.scale[AxisIndex(a)] = d.start_scale[AxisIndex(a)]
             /\ (RoundsScale(d) /\ d.op = "ScaleUniform")
                  => /\ CommonFactor(d.start_scale, new.scale)
                     /\ Abs(new.scale[1] - SnapTo(d.start_scale[1], Unwrap(ScaleStepOf(d))))
                          <= 1]_vars

\* in a frame after the press, with snapping on, a translate or rotate update
\* with the ray of the drag start has written the start value
C29_Witness ==
  /\ pc = "end"
  /\ IsSome(drag)
  /\ buttons.pressed
  /\ ~buttons.just_pressed
  /\ HasRay
  /\ snap = SnapOn
  /\ Recaptured = Unwrap(drag)
  /\ Unwrap(drag).op \in {"TranslateAxis", "TranslatePlane", "Rotate"}
  /\ IsSome(DragRay)
  /\ LiveVector # ZERO
  /\ WrittenPart(Unwrap(drag).op, transform[Unwrap(drag).target]) = StartPart(Unwrap(drag))

\* C30: a drag update writes one component of the target's transform and
\* leaves the other two as they are: a translate drag writes translation, a
\* scale drag writes scale, a rotate drag writes rotation.
C30_WritesOwnComponent ==
  [][UpdatingAny
       => LET d == Unwrap(drag)
              old == transform[d.target]
              new == transform'[d.target]
          IN /\ d.op \in {"TranslateAxis", "TranslatePlane"}
                  => new.rotation = old.rotation /\ new.scale = old.scale
             /\ d.op \in {"ScaleAxis", "ScaleUniform"}
                  => new.translation = old.translation /\ new.rotation = old.rotation
             /\ d.op = "Rotate"
                  => new.translation = old.translation /\ new.scale = old.scale]_vars

\* an update has changed the component of its operation on a target whose
\* other two components are no longer the ones captured at drag start
C30_Witness ==
  /\ pc = "end"
  /\ IsSome(drag)
  /\ buttons.pressed
  /\ HasRay
  /\ LET d == Unwrap(drag)
         tr == transform[d.target]
     IN /\ WrittenPart(d.op, tr) # StartPart(d)
        /\ d.op \in {"ScaleAxis", "ScaleUniform"}
             => tr.translation # d.start_translation /\ tr.rotation # d.start_rotation
        /\ d.op \in {"TranslateAxis", "TranslatePlane"}
             => tr.scale # d.start_scale /\ tr.rotation # d.start_rotation
        /\ d.op = "Rotate"
             => tr.translation # d.start_translation /\ tr.scale # d.start_scale

====
